---- MODULE Spec2Model ----
(***************************************************************************)
(* Model of the willys client's authenticated request pipeline:            *)
(* Client (csrfToken, username, password, authAttempts, mu), GetCSRFToken, *)
(* FetchCSRFToken, DoRequest, Login and LoginWithBrowser, run by           *)
(* concurrent callers.  Each caller has a call stack of frames; one action *)
(* models one stretch of code between two accesses to shared state or the  *)
(* network.                                                                *)
(***************************************************************************)
EXTENDS Integers, Sequences, FiniteSets, TLC

\* ------------------------------------------------------------------ bounds
NumProcs == 2
NumTokens == 2
MaxCalls == 3
MaxConcCalls == 1

\* ------------------------------------------------------- program constants
MaxAuthRetryAttempts == 2
MinPasswordLen == 6
StatusOK == 200
StatusCreated == 201
StatusUnauthorized == 401
StatusForbidden == 403
StatusServerError == 500
StatusNoContent == 204
StatusNotFound == 404

Procs == 1..NumProcs
NoToken == ""
Tokens == {"t1", "t2", "t3", "t4"}
IssuedTokens == IF NumTokens >= 4 THEN Tokens
                ELSE IF NumTokens = 3 THEN {"t1", "t2", "t3"}
                ELSE IF NumTokens = 2 THEN {"t1", "t2"}
                ELSE {"t1"}

Usernames == {"", "user"}
Passwords == {"", "abc12", "secret"}
\* len(password) of the passwords above
StrLen(s) == CASE s = "" -> 0
               [] s = "abc12" -> 5
               [] s = "secret" -> 6
               [] s = "user" -> 4

Statuses == {StatusOK, StatusCreated, StatusNoContent, StatusUnauthorized,
             StatusForbidden, StatusServerError}
NetErr == 0

\* caller's requests (method, path, body); "login" is Login's credential POST
Requests == {"r1"}
\* the requests of the domain operations, by endpoint
DomainRequests ==
    {"search", "cart", "addProducts", "clearCart", "deliverability",
     "deliveryMode", "deliveryAddress", "postalCode", "slots", "slotInCart"}
\* the statuses the domain operations tell apart, and one they do not
DomainStatuses == {StatusOK, StatusCreated, StatusNoContent,
                   StatusUnauthorized, StatusNotFound, StatusServerError}
LoginRequest == "login"
\* the statuses the server answers a request with: DoRequest tells 401 from
\* the rest, Login tells 200/201, 401/403 and the rest
StatusesFor(req) ==
    IF req = LoginRequest THEN Statuses
    ELSE IF req \in Requests
    THEN {StatusOK, StatusUnauthorized, StatusServerError}
    ELSE DomainStatuses

VARIABLES
    csrfToken,      \* Client.csrfToken
    username,       \* Client.username
    password,       \* Client.password
    authAttempts,   \* Client.authAttempts
    mu,             \* Client.mu: 0 when free, else the caller holding Lock
    stack,          \* per caller: call stack, top frame first
    ret,            \* per caller: value returned by the last completed call
    ctx,            \* per caller: the call's context: "nil" (none), "live",
                    \* or "done" (cancelled)
    hist,           \* per caller: events of the current top-level call
    lastFetched,    \* the token of the most recent successful token fetch
    budget,         \* per caller: top-level calls it may still start
    server,         \* the shop's side of the cart: the quantity it holds of
                    \* one product, the POSTs it processed, in order, and
                    \* per caller the cart it last served
    jar             \* Client.httpClient.Jar: the names of the cookies held
                    \* for the base URL

vars == <<csrfToken, username, password, authAttempts, mu, stack, ret, ctx,
          hist, lastFetched, budget, server, jar>>

\* ------------------------------------------------------------------ errors
NoErr == [type |-> "nil", msg |-> ""]
Err(t, m) == [type |-> t, msg |-> m]
Wrapped(m) == Err("error", m)
NewValidationError(field, m) == Err("ValidationError", m)
NewAuthenticationError(m) == Err("AuthenticationError", m)
NewAPIError(status, m) == [type |-> "APIError", msg |-> m, status |-> status]

NoRet == [fn |-> "none", token |-> NoToken, resp |-> 0, err |-> NoErr]
RetVal(f, t, r, e) == [fn |-> f, token |-> t, resp |-> r, err |-> e]

\* ------------------------------------------------------------- call stacks
Idle(p) == stack[p] = <<>>
Top(p) == Head(stack[p])
At(p, f, l) == /\ ~Idle(p)
               /\ Top(p).fn = f
               /\ Top(p).pc = l

\* replace the top frame
Goto(p, frame) == stack' = [stack EXCEPT ![p] = <<frame>> \o Tail(@)]
\* push callee on top of the (updated) top frame
Call(p, frame, callee) ==
    stack' = [stack EXCEPT ![p] = <<callee, frame>> \o Tail(@)]
\* pop the top frame and hand r to the caller
Return(p, r) == /\ stack' = [stack EXCEPT ![p] = Tail(@)]
                /\ ret' = [ret EXCEPT ![p] = r]

Log(p, ev) == hist' = [hist EXCEPT ![p] = Append(@, ev)]

\* ------------------------------------------------- token endpoint responses
\* body shapes of the token endpoint: a bare JSON string, an object with a
\* "token" field, JSON null, or anything else (number, array, not JSON)
TokenBodies ==
    [token : IssuedTokens \cup {NoToken}, shape : {"string", "object"}]
    \cup {[token |-> NoToken, shape |-> "null"],
          [token |-> NoToken, shape |-> "other"]}
TokenResponses ==
    {[status |-> NetErr, body |-> [token |-> NoToken, shape |-> "other"]],
     [status |-> StatusServerError,
      body |-> [token |-> NoToken, shape |-> "other"]]}
    \cup [status : {StatusOK}, body : TokenBodies]

\* json.Unmarshal(body, &token), then json.Unmarshal(body, &result)
ParseToken(body) ==
    CASE body.shape = "string" -> [token |-> body.token, ok |-> TRUE]
      [] body.shape = "null"   -> [token |-> NoToken, ok |-> TRUE]
      [] body.shape = "object" -> [token |-> body.token, ok |-> TRUE]
      [] OTHER                 -> [token |-> NoToken, ok |-> FALSE]

fetchCSRFTokenLocked_NoStore(r, cached) ==
    IF r.status = NetErr
    THEN [token |-> NoToken, err |-> Wrapped("failed to fetch CSRF token"),
          cache |-> cached]
    ELSE IF r.status # StatusOK
    THEN [token |-> NoToken,
          err |-> Wrapped("CSRF token request failed with status"),
          cache |-> cached]
    ELSE IF ~ParseToken(r.body).ok
    THEN [token |-> NoToken, err |-> Wrapped("failed to parse CSRF token"),
          cache |-> cached]
    ELSE IF ParseToken(r.body).token = NoToken
    THEN [token |-> NoToken, err |-> Wrapped("empty CSRF token"),
          cache |-> cached]
    ELSE [token |-> ParseToken(r.body).token, err |-> NoErr,
          cache |-> cached]

fetchCSRFTokenLocked_ClearOnFailure(r, cached) ==
    IF r.status = NetErr
    THEN [token |-> NoToken, err |-> Wrapped("failed to fetch CSRF token"),
          cache |-> NoToken]
    ELSE IF r.status # StatusOK
    THEN [token |-> NoToken,
          err |-> Wrapped("CSRF token request failed with status"),
          cache |-> NoToken]
    ELSE IF ~ParseToken(r.body).ok
    THEN [token |-> NoToken, err |-> Wrapped("failed to parse CSRF token"),
          cache |-> NoToken]
    ELSE IF ParseToken(r.body).token = NoToken
    THEN [token |-> NoToken, err |-> Wrapped("empty CSRF token"),
          cache |-> NoToken]
    ELSE [token |-> ParseToken(r.body).token, err |-> NoErr,
          cache |-> ParseToken(r.body).token]

\* Client.fetchCSRFTokenLocked on response r: the token and error returned,
\* and the value of c.csrfToken afterwards
fetchCSRFTokenLocked(r, cached) ==
    IF r.status = NetErr
    THEN [token |-> NoToken, err |-> Wrapped("failed to fetch CSRF token"),
          cache |-> cached]
    ELSE IF r.status # StatusOK
    THEN [token |-> NoToken,
          err |-> Wrapped("CSRF token request failed with status"),
          cache |-> cached]
    ELSE IF ~ParseToken(r.body).ok
    THEN [token |-> NoToken, err |-> Wrapped("failed to parse CSRF token"),
          cache |-> cached]
    ELSE IF ParseToken(r.body).token = NoToken
    THEN [token |-> NoToken, err |-> Wrapped("empty CSRF token"),
          cache |-> cached]
    ELSE [token |-> ParseToken(r.body).token, err |-> NoErr,
          cache |-> ParseToken(r.body).token]

\* a token-fetch network call: whether it succeeded, whether it was a forced
\* refresh (FetchCSRFToken), whether a token was cached when it was issued
FetchEvent(res, forced, cached) ==
    [e |-> "tokenfetch", ok |-> res.err = NoErr, cached |-> cached,
     forced |-> forced]
\* the ghost lastFetched follows the token endpoint's successful answers
Fetched(res) == lastFetched' = IF res.err = NoErr THEN res.token
                               ELSE lastFetched

\* the shop when it holds q of the one product followed: the cart as it was
\* filled (by 0, no caller), no cart served yet
Shop(q) == [cart |-> q, posts |-> <<[by |-> 0, qty |-> q]>>,
            sent |-> [p \in Procs |-> 0]]

\* -------------------------------------------------------------------- Init
Init == /\ csrfToken = NoToken
        /\ username \in Usernames
        /\ password \in Passwords
        /\ authAttempts = 0
        /\ mu = 0
        /\ stack = [p \in Procs |-> <<>>]
        /\ ret = [p \in Procs |-> NoRet]
        /\ ctx = [p \in Procs |-> "nil"]
        /\ hist = [p \in Procs |-> <<>>]
        /\ lastFetched = NoToken
        /\ budget = [p \in Procs |-> IF p = 1 THEN MaxCalls ELSE 0]
        /\ server = Shop(0)
        /\ jar = {}

\* the first event of a call: the function called, and the arguments of a
\* domain operation
CallEvent(f) ==
    IF "args" \in DOMAIN f
    THEN [fn |-> f.fn, e |-> "call", args |-> f.args, needsCSRF |-> FALSE]
    ELSE [fn |-> f.fn, e |-> "call",
          needsCSRF |-> (f.fn = "DoRequest" /\ f.needsCSRF)]

\* a caller starts a top-level call with frame f and context c
Start(p, f, c) == /\ Idle(p)
                  /\ budget[p] > 0
                  /\ budget' = [budget EXCEPT ![p] = @ - 1]
                  /\ stack' = [stack EXCEPT ![p] = <<f>>]
                  /\ ret' = [ret EXCEPT ![p] = NoRet]
                  /\ ctx' = [ctx EXCEPT ![p] = c]
                  /\ hist' = [hist EXCEPT ![p] = <<CallEvent(f)>>]
                  /\ UNCHANGED <<csrfToken, username, password, authAttempts,
                                 mu, lastFetched, server, jar>>

\* ------------------------------------------------------------- cookie jar
\* the cookies a response can carry in its Set-Cookie headers: none, or the
\* session cookie of the shop
NoCookies == {{}}
SessionCookies == {{}, {"JSESSIONID"}}
\* the cookies the headless browser holds after the login dialog: none, or
\* the session cookie and the login cookie
PageCookies == {{}, {"JSESSIONID", "auth"}}

\* http.Client stores the cookies of a response that arrived into its jar
Received(status, cookies) == IF status = NetErr THEN jar ELSE jar \cup cookies

\* the owner of the client lock after the caller holding it unlocks: nobody
Unlock_Kept(holder) == holder

Unlock(holder) == 0

\* ------------------------------------------------------------ GetCSRFToken
GetFrame == [fn |-> "GetCSRFToken", pc |-> "read"]

StartGetCSRFToken(p) == Start(p, GetFrame, "nil")

\* RLock; token := c.csrfToken; RUnlock; return it when non-empty
GetCSRFTokenRead(p) ==
    /\ At(p, "GetCSRFToken", "read")
    /\ mu = 0
    /\ IF csrfToken # NoToken
       THEN Return(p, RetVal("GetCSRFToken", csrfToken, 0, NoErr))
       ELSE /\ Goto(p, [Top(p) EXCEPT !.pc = "lock"])
            /\ UNCHANGED ret
    /\ UNCHANGED <<csrfToken, username, password, authAttempts, mu, ctx,
                   hist, lastFetched, budget, server, jar>>

\* c.mu.Lock()
GetCSRFTokenLock(p) ==
    /\ At(p, "GetCSRFToken", "lock")
    /\ mu = 0
    /\ mu' = p
    /\ Goto(p, [Top(p) EXCEPT !.pc = "locked"])
    /\ UNCHANGED <<csrfToken, username, password, authAttempts, ret, ctx,
                   hist, lastFetched, budget, server, jar>>

GetCSRFTokenRecheck_Never(cached) == FALSE

\* whether GetCSRFToken, holding the lock, returns the cached token
GetCSRFTokenRecheck(cached) == cached # NoToken

\* re-check under the lock, fetch only when still empty; deferred Unlock;
\* the response of the fetch carries one of the cookie sets in cookies
GetCSRFTokenFetch(p, cookies) ==
    /\ At(p, "GetCSRFToken", "locked")
    /\ mu = p
    /\ mu' = Unlock(p)
    /\ IF GetCSRFTokenRecheck(csrfToken)
       THEN /\ Return(p, RetVal("GetCSRFToken", csrfToken, 0, NoErr))
            /\ Log(p, [e |-> "rechecked"])
            /\ UNCHANGED <<csrfToken, lastFetched, jar>>
       ELSE \E r \in TokenResponses, c \in cookies :
              LET res == fetchCSRFTokenLocked(r, csrfToken) IN
                /\ csrfToken' = res.cache
                /\ Return(p, RetVal("GetCSRFToken", res.token, 0, res.err))
                /\ Log(p, FetchEvent(res, FALSE, csrfToken # NoToken))
                /\ Fetched(res)
                /\ jar' = Received(r.status, c)
    /\ UNCHANGED <<username, password, authAttempts, ctx, budget, server>>

GetCSRFTokenLocked(p) == GetCSRFTokenFetch(p, NoCookies)

\* ---------------------------------------------------------- FetchCSRFToken
FetchFrame == [fn |-> "FetchCSRFToken", pc |-> "lock"]

StartFetchCSRFToken(p) == Start(p, FetchFrame, "nil")

\* c.mu.Lock()
FetchCSRFTokenLock(p) ==
    /\ At(p, "FetchCSRFToken", "lock")
    /\ mu = 0
    /\ mu' = p
    /\ Goto(p, [Top(p) EXCEPT !.pc = "locked"])
    /\ UNCHANGED <<csrfToken, username, password, authAttempts, ret, ctx,
                   hist, lastFetched, budget, server, jar>>

\* return c.fetchCSRFTokenLocked(); deferred Unlock
FetchCSRFTokenFetch(p, cookies) ==
    /\ At(p, "FetchCSRFToken", "locked")
    /\ mu = p
    /\ mu' = Unlock(p)
    /\ \E r \in TokenResponses, c \in cookies :
         LET res == fetchCSRFTokenLocked(r, csrfToken) IN
           /\ csrfToken' = res.cache
           /\ Return(p, RetVal("FetchCSRFToken", res.token, 0, res.err))
           /\ Log(p, FetchEvent(res, TRUE, csrfToken # NoToken))
           /\ Fetched(res)
           /\ jar' = Received(r.status, c)
    /\ UNCHANGED <<username, password, authAttempts, ctx, budget, server>>

FetchCSRFTokenLocked(p) == FetchCSRFTokenFetch(p, NoCookies)

\* --------------------------------------------------------------- DoRequest
\* prep: whether the body can be read and the request can be built
\* ("ok"), io.ReadAll fails ("body") or http.NewRequest fails ("request")
DoRequestFrame(req, needsCSRF, prep) ==
    [req |-> req, username |-> "", password |-> "", fn |-> "DoRequest",
     resp |-> 0, pc |-> "begin", needsCSRF |-> needsCSRF, prep |-> prep,
     header |-> NoToken, attempts |-> 0]

StartDoRequest(p) ==
    \E req \in Requests, needsCSRF \in BOOLEAN, c \in {"live", "done"},
       prep \in {"ok", "body", "request"} :
        Start(p, DoRequestFrame(req, needsCSRF, prep), c)

\* the caller's cancellation signal fires while a call is running
Cancel(p) == /\ ~Idle(p)
             /\ ctx[p] = "live"
             /\ ctx' = [ctx EXCEPT ![p] = "done"]
             /\ UNCHANGED <<csrfToken, username, password, authAttempts, mu,
                            stack, ret, hist, lastFetched, budget, server, jar>>

\* outcomes of httpClient.Do(req): a request built with a cancelled context
\* is not sent
DoOutcomes(p) == IF ctx[p] = "done" THEN {NetErr}
                 ELSE StatusesFor(Top(p).req) \cup {NetErr}

DispatchEvent(f, o) ==
    [req |-> f.req, status |-> o, e |-> "dispatch",
     csrf |-> f.header # NoToken]

DoRet(resp, err) == RetVal("DoRequest", NoToken, resp, err)

\* ctx.Done() check, body read, createRequest; then GetCSRFToken if needed
DoRequestBegin(p) ==
    /\ At(p, "DoRequest", "begin")
    /\ IF ctx[p] = "done"
       THEN Return(p, DoRet(0, Wrapped("context canceled")))
       ELSE IF Top(p).prep = "body"
       THEN Return(p, DoRet(0, Wrapped("failed to read request body")))
       ELSE IF Top(p).prep = "request"
       THEN Return(p, DoRet(0, Wrapped("failed to create request")))
       ELSE IF Top(p).needsCSRF
       THEN /\ Call(p, [Top(p) EXCEPT !.pc = "token"], GetFrame)
            /\ UNCHANGED ret
       ELSE /\ Goto(p, [Top(p) EXCEPT !.pc = "do"])
            /\ UNCHANGED ret
    /\ UNCHANGED <<csrfToken, username, password, authAttempts, mu, ctx,
                   hist, lastFetched, budget, server, jar>>

\* the token returned by GetCSRFToken goes into the X-CSRF-TOKEN header
AttachToken(p, from, to, msg) ==
    /\ At(p, "DoRequest", from)
    /\ IF ret[p].err # NoErr
       THEN Return(p, DoRet(0, Wrapped(msg)))
       ELSE /\ Goto(p, [Top(p) EXCEPT !.pc = to, !.header = ret[p].token])
            /\ UNCHANGED ret
    /\ UNCHANGED <<csrfToken, username, password, authAttempts, mu, ctx,
                   hist, lastFetched, budget, server, jar>>

DoRequestToken(p) ==
    AttachToken(p, "token", "do", "failed to get CSRF token")

NeedsRefresh_Never(status, needsCSRF) == FALSE

NeedsRefresh_IgnoreFlag(status, needsCSRF) == status = StatusUnauthorized

\* whether the first response starts the refresh-and-retry sequence
NeedsRefresh(status, needsCSRF) == status = StatusUnauthorized /\ needsCSRF

\* resp, err := c.httpClient.Do(req); a 401 on a protected request starts the
\* forced token refresh
DoRequestDispatch(p, cookies) ==
    /\ At(p, "DoRequest", "do")
    /\ \E o \in DoOutcomes(p), c \in cookies :
         /\ Log(p, DispatchEvent(Top(p), o))
         /\ jar' = Received(o, c)
         /\ IF o = NetErr
            THEN Return(p, DoRet(0, Wrapped("request failed")))
            ELSE IF NeedsRefresh(o, Top(p).needsCSRF)
            THEN /\ Call(p, [Top(p) EXCEPT !.pc = "refreshed", !.resp = o],
                         FetchFrame)
                 /\ UNCHANGED ret
            ELSE Return(p, DoRet(o, NoErr))
    /\ UNCHANGED <<csrfToken, username, password, authAttempts, mu, ctx,
                   lastFetched, budget, server>>

DoRequestDo(p) == DoRequestDispatch(p, NoCookies)

\* FetchCSRFToken returned: fail, or rebuild the request and GetCSRFToken
DoRequestRefreshed(p) ==
    /\ At(p, "DoRequest", "refreshed")
    /\ IF ret[p].err # NoErr
       THEN Return(p, DoRet(0, Wrapped("failed to refresh CSRF token")))
       ELSE /\ Call(p, [Top(p) EXCEPT !.pc = "token2"], GetFrame)
            /\ UNCHANGED ret
    /\ UNCHANGED <<csrfToken, username, password, authAttempts, mu, ctx,
                   hist, lastFetched, budget, server, jar>>

DoRequestToken2(p) ==
    AttachToken(p, "token2", "retry", "failed to get updated CSRF token")

\* resp, err = c.httpClient.Do(req): the retry after the refresh
DoRequestRetry(p) ==
    /\ At(p, "DoRequest", "retry")
    /\ \E o \in DoOutcomes(p) :
         /\ Log(p, DispatchEvent(Top(p), o))
         /\ IF o = NetErr
            THEN Return(p, DoRet(0, Wrapped("retry request failed")))
            ELSE /\ Goto(p, [Top(p) EXCEPT !.pc = "load", !.resp = o])
                 /\ UNCHANGED ret
    /\ UNCHANGED <<csrfToken, username, password, authAttempts, mu, ctx,
                   lastFetched, budget, server, jar>>

\* attempts := c.authAttempts.Load()
DoRequestLoad(p) ==
    /\ At(p, "DoRequest", "load")
    /\ Goto(p, [Top(p) EXCEPT !.pc = "creds", !.attempts = authAttempts])
    /\ UNCHANGED <<csrfToken, username, password, authAttempts, mu, ret, ctx,
                   hist, lastFetched, budget, server, jar>>

ShouldRelogin_OffByOne(status, u, pw, attempts) ==
    /\ status = StatusUnauthorized
    /\ u # ""
    /\ pw # ""
    /\ attempts < MaxAuthRetryAttempts - 1

\* the condition guarding the re-login
ShouldRelogin(status, u, pw, attempts) ==
    /\ status = StatusUnauthorized
    /\ u # ""
    /\ pw # ""
    /\ attempts < MaxAuthRetryAttempts

BudgetSpent_OffByOne(status, attempts) ==
    status = StatusUnauthorized /\ attempts > MaxAuthRetryAttempts

\* the condition of the else-if: the retry budget is spent
BudgetSpent(status, attempts) ==
    status = StatusUnauthorized /\ attempts >= MaxAuthRetryAttempts

\* RLock; read username and password; RUnlock; then the two conditions
DoRequestCreds(p) ==
    /\ At(p, "DoRequest", "creds")
    /\ mu = 0
    /\ LET f == [Top(p) EXCEPT !.username = username, !.password = password]
       IN /\ Log(p, [status |-> f.resp, e |-> "creds",
                      attempts |-> f.attempts,
                      held |-> (f.username # "" /\ f.password # "")])
          /\ IF ShouldRelogin(f.resp, f.username, f.password, f.attempts)
             THEN /\ Goto(p, [f EXCEPT !.pc = "add"])
                  /\ UNCHANGED ret
             ELSE IF BudgetSpent(f.resp, f.attempts)
             THEN Return(p, DoRet(0, NewAuthenticationError(
                            "maximum authentication retry attempts exceeded")))
             ELSE Return(p, DoRet(f.resp, NoErr))
    /\ UNCHANGED <<csrfToken, username, password, authAttempts, mu, ctx,
                   lastFetched, budget, server, jar>>

LoginFrame(u, pw) ==
    [username |-> u, password |-> pw, fn |-> "Login", pc |-> "begin"]

\* c.authAttempts.Add(1), then c.Login(ctx, username, password)
DoRequestAdd(p) ==
    /\ At(p, "DoRequest", "add")
    /\ authAttempts' = authAttempts + 1
    /\ Log(p, [e |-> "add"])
    /\ Call(p, [Top(p) EXCEPT !.pc = "relogged"],
            LoginFrame(Top(p).username, Top(p).password))
    /\ UNCHANGED <<csrfToken, username, password, mu, ret, ctx, lastFetched, budget, server, jar>>

\* Login returned: fail, or rebuild the request and GetCSRFToken
DoRequestRelogged(p) ==
    /\ At(p, "DoRequest", "relogged")
    /\ Log(p, [e |-> "relogged", ok |-> ret[p].err = NoErr])
    /\ IF ret[p].err # NoErr
       THEN Return(p, DoRet(0,
                      NewAuthenticationError("failed to re-authenticate")))
       ELSE /\ Call(p, [Top(p) EXCEPT !.pc = "token3"], GetFrame)
            /\ UNCHANGED ret
    /\ UNCHANGED <<csrfToken, username, password, authAttempts, mu, ctx,
                   lastFetched, budget, server, jar>>

DoRequestToken3(p) ==
    AttachToken(p, "token3", "final", "failed to get CSRF token after re-auth")

\* resp, err = c.httpClient.Do(req): the final retry; return resp, nil
DoRequestFinal(p) ==
    /\ At(p, "DoRequest", "final")
    /\ \E o \in DoOutcomes(p) :
         /\ Log(p, DispatchEvent(Top(p), o))
         /\ IF o = NetErr
            THEN Return(p, DoRet(0, Wrapped("final retry request failed")))
            ELSE Return(p, DoRet(o, NoErr))
    /\ UNCHANGED <<csrfToken, username, password, authAttempts, mu, ctx,
                   lastFetched, budget, server, jar>>

\* ------------------------------------------------------------------- Login
StartLogin(p) ==
    \E u \in Usernames, pw \in Passwords, c \in {"live", "done"} :
        Start(p, LoginFrame(u, pw), c)

ValidateCredentials_NoLength(u, pw) ==
    IF u = "" THEN NewValidationError("username", "username cannot be empty")
    ELSE IF pw = ""
    THEN NewValidationError("password", "password cannot be empty")
    ELSE NoErr

\* the input checks shared by Login and LoginWithBrowser
ValidateCredentials(u, pw) ==
    IF u = "" THEN NewValidationError("username", "username cannot be empty")
    ELSE IF pw = ""
    THEN NewValidationError("password", "password cannot be empty")
    ELSE IF StrLen(pw) < MinPasswordLen
    THEN NewValidationError("password",
                            "password must be at least 6 characters")
    ELSE NoErr

LoginRet(err) == RetVal("Login", NoToken, 0, err)

\* input validation
LoginBegin(p) ==
    /\ At(p, "Login", "begin")
    /\ Log(p, [e |-> "login"])
    /\ LET e == ValidateCredentials(Top(p).username, Top(p).password) IN
         IF e # NoErr
         THEN Return(p, LoginRet(e))
         ELSE /\ Goto(p, [Top(p) EXCEPT !.pc = "init"])
              /\ UNCHANGED ret
    /\ UNCHANGED <<csrfToken, username, password, authAttempts, mu, ctx,
                   lastFetched, budget, server, jar>>

\* c.InitializeSession(ctx): c.httpClient.Get(c.baseURL), status must be 200;
\* then the credential POST through DoRequest(..., false)
InitializeSession(p) ==
    /\ At(p, "Login", "init")
    /\ \E o \in {StatusOK, StatusServerError, NetErr} :
         /\ Log(p, [e |-> "init"])
         /\ IF o # StatusOK
            THEN Return(p, LoginRet(
                     NewAuthenticationError("failed to initialize session")))
            ELSE /\ Call(p, [Top(p) EXCEPT !.pc = "posted"],
                         DoRequestFrame(LoginRequest, FALSE, "ok"))
                 /\ UNCHANGED ret
    /\ UNCHANGED <<csrfToken, username, password, authAttempts, mu, ctx,
                   lastFetched, budget, server, jar>>

\* how Login maps the outcome of the credential POST
LoginStatusError(r) ==
    IF r.err # NoErr THEN NewAuthenticationError("login request failed")
    ELSE IF r.resp = StatusUnauthorized \/ r.resp = StatusForbidden
    THEN NewAuthenticationError("invalid username or password")
    ELSE IF r.resp # StatusOK /\ r.resp # StatusCreated
    THEN NewAPIError(r.resp, "login failed")
    ELSE NoErr

LoginPosted(p) ==
    /\ At(p, "Login", "posted")
    /\ IF LoginStatusError(ret[p]) # NoErr
       THEN Return(p, LoginRet(LoginStatusError(ret[p])))
       ELSE /\ Goto(p, [Top(p) EXCEPT !.pc = "store"])
            /\ UNCHANGED ret
    /\ UNCHANGED <<csrfToken, username, password, authAttempts, mu, ctx,
                   hist, lastFetched, budget, server, jar>>

\* c.mu.Lock(); c.username = username; c.password = password; c.mu.Unlock()
StoreCredentials(p, f) ==
    /\ At(p, f, "store")
    /\ mu = 0
    /\ username' = Top(p).username
    /\ password' = Top(p).password
    /\ Goto(p, [Top(p) EXCEPT !.pc = "reset"])
    /\ UNCHANGED <<csrfToken, authAttempts, mu, ret, ctx, hist, lastFetched, budget, server, jar>>

ResetValue_Keep(attempts) == attempts

\* the value the login paths store into the retry counter
ResetValue(attempts) == 0

\* c.authAttempts.Store(0), then c.FetchCSRFToken()
ResetAttempts(p, f) ==
    /\ At(p, f, "reset")
    /\ authAttempts' = ResetValue(authAttempts)
    /\ Log(p, [e |-> "reset", from |-> authAttempts])
    /\ Call(p, [Top(p) EXCEPT !.pc = "fetched"], FetchFrame)
    /\ UNCHANGED <<csrfToken, username, password, mu, ret, ctx, lastFetched, budget, server, jar>>

LoginFetchError_Ignored(err) == NoErr

\* how the login paths map the error of their closing FetchCSRFToken
LoginFetchError(err) ==
    IF err # NoErr
    THEN NewAuthenticationError("failed to fetch CSRF token after login")
    ELSE NoErr

\* the result of the final token fetch decides the login
LoginFetched(p, f) ==
    /\ At(p, f, "fetched")
    /\ Return(p, RetVal(f, NoToken, 0, LoginFetchError(ret[p].err)))
    /\ UNCHANGED <<csrfToken, username, password, authAttempts, mu, ctx,
                   hist, lastFetched, budget, server, jar>>

LoginStore(p) == StoreCredentials(p, "Login")
LoginReset(p) == ResetAttempts(p, "Login")
LoginDone(p) == LoginFetched(p, "Login")

\* -------------------------------------------------------- LoginWithBrowser
BrowserFrame(u, pw) ==
    [username |-> u, password |-> pw, fn |-> "LoginWithBrowser",
     pc |-> "begin"]

StartLoginWithBrowser(p) ==
    \E u \in Usernames, pw \in Passwords :
        Start(p, BrowserFrame(u, pw), "live")

\* the error returns after the page was opened, in source order
PageFailures ==
    {"page failed to load", "failed to find login link",
     "failed to click login link", "failed to find login dialog",
     "failed to find username input field", "failed to input username",
     "failed to find password input field", "failed to input password",
     "failed to find login button", "failed to click login button",
     "invalid username or password", "failed to extract cookies"}

BrowserRet(err) == RetVal("LoginWithBrowser", NoToken, 0, err)

\* input validation
LoginWithBrowserBegin(p) ==
    /\ At(p, "LoginWithBrowser", "begin")
    /\ LET e == ValidateCredentials(Top(p).username, Top(p).password) IN
         IF e # NoErr
         THEN Return(p, BrowserRet(e))
         ELSE /\ Goto(p, [Top(p) EXCEPT !.pc = "launch"])
              /\ UNCHANGED ret
    /\ UNCHANGED <<csrfToken, username, password, authAttempts, mu, ctx,
                   hist, lastFetched, budget, server, jar>>

\* launcher.New().Bin(path).Headless(true).Devtools(false).MustLaunch()
LoginWithBrowserLaunch(p) ==
    /\ At(p, "LoginWithBrowser", "launch")
    /\ Log(p, [e |-> "launch"])
    /\ Goto(p, [Top(p) EXCEPT !.pc = "connect"])
    /\ UNCHANGED <<csrfToken, username, password, authAttempts, mu, ret, ctx,
                   lastFetched, budget, server, jar>>

\* browser.Connect(): on error return; otherwise defer browser.MustClose()
LoginWithBrowserConnect(p) ==
    /\ At(p, "LoginWithBrowser", "connect")
    /\ \/ /\ Return(p, BrowserRet(
                 NewAuthenticationError("failed to connect to browser")))
          /\ UNCHANGED hist
       \/ /\ Goto(p, [Top(p) EXCEPT !.pc = "page"])
          /\ Log(p, [e |-> "connected"])
          /\ UNCHANGED ret
    /\ UNCHANGED <<csrfToken, username, password, authAttempts, mu, ctx,
                   lastFetched, budget, server, jar>>

\* the deferred calls run at a return, last registered first
DeferredFromPage == <<[e |-> "closepage"], [e |-> "closebrowser"]>>
DeferredFromConnect == <<[e |-> "closebrowser"]>>

\* browser.Timeout(...).Page(...): on error return (browser.MustClose runs);
\* otherwise defer page.MustClose()
LoginWithBrowserPage(p) ==
    /\ At(p, "LoginWithBrowser", "page")
    /\ \/ /\ Return(p, BrowserRet(
                 NewAuthenticationError("failed to create page")))
          /\ hist' = [hist EXCEPT ![p] = @ \o DeferredFromConnect]
       \/ /\ Goto(p, [Top(p) EXCEPT !.pc = "automate"])
          /\ Log(p, [e |-> "page"])
          /\ UNCHANGED ret
    /\ UNCHANGED <<csrfToken, username, password, authAttempts, mu, ctx,
                   lastFetched, budget, server, jar>>

\* the page automation up to Jar.SetCookies: any of its error returns, or
\* the cookies are copied into the jar
LoginWithBrowserAutomate(p) ==
    /\ At(p, "LoginWithBrowser", "automate")
    /\ \/ /\ \E m \in PageFailures :
                 Return(p, BrowserRet(NewAuthenticationError(m)))
          /\ hist' = [hist EXCEPT ![p] = @ \o DeferredFromPage]
          /\ UNCHANGED jar
       \/ /\ Goto(p, [Top(p) EXCEPT !.pc = "store"])
          /\ \E c \in PageCookies : jar' = jar \cup c
          /\ UNCHANGED <<ret, hist>>
    /\ UNCHANGED <<csrfToken, username, password, authAttempts, mu, ctx,
                   lastFetched, budget, server>>

LoginWithBrowserStore(p) == StoreCredentials(p, "LoginWithBrowser")
LoginWithBrowserReset(p) == ResetAttempts(p, "LoginWithBrowser")
\* the result of the final token fetch decides the login; the deferred
\* page.MustClose() and browser.MustClose() run at the return
LoginWithBrowserDone(p) ==
    /\ At(p, "LoginWithBrowser", "fetched")
    /\ Return(p, BrowserRet(LoginFetchError(ret[p].err)))
    /\ hist' = [hist EXCEPT ![p] = @ \o DeferredFromPage]
    /\ UNCHANGED <<csrfToken, username, password, authAttempts, mu, ctx,
                   lastFetched, budget, server, jar>>

Next == \E p \in Procs :
          \/ StartGetCSRFToken(p)
          \/ GetCSRFTokenRead(p)
          \/ GetCSRFTokenLock(p)
          \/ GetCSRFTokenLocked(p)
          \/ StartFetchCSRFToken(p)
          \/ FetchCSRFTokenLock(p)
          \/ FetchCSRFTokenLocked(p)
          \/ StartDoRequest(p)
          \/ Cancel(p)
          \/ DoRequestBegin(p)
          \/ DoRequestToken(p)
          \/ DoRequestDo(p)
          \/ DoRequestRefreshed(p)
          \/ DoRequestToken2(p)
          \/ DoRequestRetry(p)
          \/ DoRequestLoad(p)
          \/ DoRequestCreds(p)
          \/ DoRequestAdd(p)
          \/ DoRequestRelogged(p)
          \/ DoRequestToken3(p)
          \/ DoRequestFinal(p)
          \/ StartLogin(p)
          \/ LoginBegin(p)
          \/ InitializeSession(p)
          \/ LoginPosted(p)
          \/ LoginStore(p)
          \/ LoginReset(p)
          \/ LoginDone(p)
          \/ StartLoginWithBrowser(p)
          \/ LoginWithBrowserBegin(p)
          \/ LoginWithBrowserLaunch(p)
          \/ LoginWithBrowserConnect(p)
          \/ LoginWithBrowserPage(p)
          \/ LoginWithBrowserAutomate(p)
          \/ LoginWithBrowserStore(p)
          \/ LoginWithBrowserReset(p)
          \/ LoginWithBrowserDone(p)

Spec == Init /\ [][Next]_vars

\* every caller may start MaxConcCalls calls, so calls overlap
InitConc == /\ csrfToken = NoToken
            /\ username = "user"
            /\ password = "secret"
            /\ authAttempts = 0
            /\ mu = 0
            /\ stack = [p \in Procs |-> <<>>]
            /\ ret = [p \in Procs |-> NoRet]
            /\ ctx = [p \in Procs |-> "nil"]
            /\ hist = [p \in Procs |-> <<>>]
            /\ lastFetched = NoToken
            /\ budget = [p \in Procs |-> MaxConcCalls]
            /\ server = Shop(0)
            /\ jar = {}

\* concurrent callers issuing requests and token calls
NextConc == \E p \in Procs :
              \/ StartGetCSRFToken(p)
              \/ GetCSRFTokenRead(p)
              \/ GetCSRFTokenLock(p)
              \/ GetCSRFTokenLocked(p)
              \/ StartFetchCSRFToken(p)
              \/ FetchCSRFTokenLock(p)
              \/ FetchCSRFTokenLocked(p)
              \/ StartDoRequest(p)
              \/ DoRequestBegin(p)
              \/ DoRequestToken(p)
              \/ DoRequestDo(p)
              \/ DoRequestRefreshed(p)
              \/ DoRequestToken2(p)
              \/ DoRequestRetry(p)
              \/ DoRequestLoad(p)
              \/ DoRequestCreds(p)
              \/ DoRequestAdd(p)
              \/ DoRequestRelogged(p)
              \/ DoRequestToken3(p)
              \/ DoRequestFinal(p)
              \/ LoginBegin(p)
              \/ InitializeSession(p)
              \/ LoginPosted(p)
              \/ LoginStore(p)
              \/ LoginReset(p)
              \/ LoginDone(p)

SpecConc == InitConc /\ [][NextConc]_vars

\* ============================================================ properties
\* The events of a caller's current (or last completed) top-level call.
Called(p, f) == hist[p] # <<>> /\ hist[p][1].fn = f
Done(p, f) == Idle(p) /\ Called(p, f)
Protected(p) == Called(p, "DoRequest") /\ hist[p][1].needsCSRF
Unprotected(p) == Called(p, "DoRequest") /\ ~hist[p][1].needsCSRF
Idx(p) == 1..Len(hist[p])
Ev(p, i) == hist[p][i]
Last(p) == hist[p][Len(hist[p])]

\* a dispatch of the caller's own request (not Login's credential POST)
IsDispatch(ev) == ev.e = "dispatch" /\ ev.req \in Requests
IsFetch(ev) == ev.e = "tokenfetch"
Is(ev, tag) == ev.e = tag
Dispatches(p) == SelectSeq(hist[p], IsDispatch)
Count(p, tag) == Cardinality({i \in Idx(p) : Is(Ev(p, i), tag)})
FirstDispatch(p, i) == /\ IsDispatch(Ev(p, i))
                       /\ \A j \in 1..(i - 1) : ~IsDispatch(Ev(p, j))

\* ------------------------------------------------------------------- C1
\* the call has ended after three dispatches of the request, all answered 401
C1_ThreeUnauthorized(p) ==
    /\ Done(p, "DoRequest")
    /\ Len(Dispatches(p)) = 3
    /\ \A i \in 1..3 : Dispatches(p)[i].status = StatusUnauthorized

\* C1: a DoRequest call whose three dispatches of the protected request were
\* all answered 401 has performed at most one Login and returns an
\* AuthenticationError.
C1_RetryBudgetEndsInAuthenticationError ==
    \A p \in Procs :
        C1_ThreeUnauthorized(p) =>
            /\ Count(p, "login") <= 1
            /\ ret[p].err.type = "AuthenticationError"

\* ------------------------------------------------------------------- C3
\* the re-login decision saw a 401 with the retry counter at its maximum
SawBudgetSpent(ev) == /\ Is(ev, "creds")
                      /\ ev.status = StatusUnauthorized
                      /\ ev.attempts >= MaxAuthRetryAttempts

\* C3: when the retry after the token refresh is 401 and the retry counter
\* has reached MaxAuthRetryAttempts, the call ends there with an
\* AuthenticationError: no counter increment, no Login and no third dispatch
\* follow, with or without credentials.
C3_BudgetSpentFails ==
    \A p \in Procs : \A i \in Idx(p) :
        SawBudgetSpent(Ev(p, i)) =>
            /\ Len(hist[p]) = i
            /\ Len(Dispatches(p)) = 2
            /\ Count(p, "login") = 0
            /\ Count(p, "add") = 0
            /\ Done(p, "DoRequest")
            /\ ret[p].resp = 0
            /\ ret[p].err = NewAuthenticationError(
                   "maximum authentication retry attempts exceeded")

C3_Witness ==
    \E p \in Procs : \E i \in Idx(p) :
        /\ SawBudgetSpent(Ev(p, i))
        /\ Ev(p, i).held
        /\ Done(p, "DoRequest")

\* ------------------------------------------------------------------- C4
\* what follows the 401 at event i: a forced fetch, then either the end of
\* the call or one dispatch and the re-login decision
C4_AfterFirst401(p, i) ==
    LET n == Len(hist[p]) IN
    /\ Idle(p) => n > i
    /\ n > i => /\ IsFetch(Ev(p, i + 1))
                /\ Ev(p, i + 1).forced
    /\ (n > i /\ ~Ev(p, i + 1).ok) =>
           /\ n = i + 1
           /\ Idle(p) => /\ ret[p].resp = 0
                         /\ ret[p].err =
                                Wrapped("failed to refresh CSRF token")
    /\ n > i + 1 => /\ Ev(p, i + 1).ok
                    /\ IsDispatch(Ev(p, i + 2))
                    /\ Ev(p, i + 2).req = Ev(p, i).req
                    /\ Ev(p, i + 2).csrf
    /\ n > i + 2 => Is(Ev(p, i + 3), "creds")

\* C4: after a first response of 401 to a protected request, the next thing
\* the call does is one forced token fetch; if it fails the call ends with
\* the refresh error and no further dispatch; if it succeeds the next event
\* is one dispatch of the same request with the CSRF header, carrying the
\* cached token, followed by the re-login decision.
C4_RefreshAndRetryOnce ==
    \A p \in Procs :
        /\ \A i \in Idx(p) :
               (/\ Protected(p)
                /\ FirstDispatch(p, i)
                /\ Ev(p, i).status = StatusUnauthorized) =>
                   C4_AfterFirst401(p, i)
        /\ At(p, "DoRequest", "refreshed") /\ ret[p].err = NoErr =>
               /\ ret[p].token = csrfToken
               /\ csrfToken # NoToken
        /\ At(p, "DoRequest", "retry") =>
               /\ Top(p).header = csrfToken
               /\ Top(p).header # NoToken

C4_Witness ==
    \E p \in Procs : \E i \in Idx(p) :
        /\ Protected(p)
        /\ FirstDispatch(p, i)
        /\ Ev(p, i).status = StatusUnauthorized
        /\ Len(hist[p]) > i + 1
        /\ IsDispatch(Ev(p, i + 2))
        /\ Ev(p, i + 2).status = StatusOK
        /\ Done(p, "DoRequest")
        /\ ret[p].resp = StatusOK

\* ------------------------------------------------------------------- C2
\* the re-login decision saw a 401, a non-empty username and password, and
\* a retry counter below MaxAuthRetryAttempts
SawReloginDue(ev) == /\ Is(ev, "creds")
                     /\ ev.status = StatusUnauthorized
                     /\ ev.held
                     /\ ev.attempts < MaxAuthRetryAttempts

\* what follows the decision in every case: the counter is incremented, then
\* Login is called; a later dispatch of the request is the call's last
\* event, is the third, carries the CSRF header and comes right after a
\* successful Login whose last act was a successful token fetch
C2_Order(p, i) ==
    LET n == Len(hist[p]) IN
    /\ Idle(p) => n > i + 1
    /\ n > i => Is(Ev(p, i + 1), "add")
    /\ n > i + 1 => Is(Ev(p, i + 2), "login")
    /\ Count(p, "add") <= 1
    /\ Count(p, "login") <= 1
    /\ \A j \in (i + 1)..n :
           IsDispatch(Ev(p, j)) =>
               /\ j = n
               /\ Len(Dispatches(p)) = 3
               /\ Ev(p, j).csrf
               /\ Ev(p, j).req = Dispatches(p)[1].req
               /\ Is(Ev(p, j - 1), "relogged")
               /\ Ev(p, j - 1).ok
               /\ IsFetch(Ev(p, j - 2))
               /\ Ev(p, j - 2).ok
               /\ Idle(p)
               /\ ret[p] = IF Ev(p, j).status = NetErr
                           THEN DoRet(0, Wrapped("final retry request failed"))
                           ELSE DoRet(Ev(p, j).status, NoErr)

\* C2 as stated: whenever the re-login is due, the call ends with a third
\* dispatch of the request.
C2_ReloginAlwaysRetries ==
    \A p \in Procs : \A i \in Idx(p) :
        SawReloginDue(Ev(p, i)) =>
            /\ C2_Order(p, i)
            /\ Idle(p) => IsDispatch(Last(p))

\* the Login frames called from DoRequest carry the credentials DoRequest
\* read, which are the stored ones
C2_StoredCredentials ==
    \A p \in Procs : \A k \in 1..(Len(stack[p]) - 1) :
        (stack[p][k].fn = "Login" /\ stack[p][k + 1].fn = "DoRequest") =>
            /\ stack[p][k].username = stack[p][k + 1].username
            /\ stack[p][k].password = stack[p][k + 1].password
            /\ stack[p][k].username = username
            /\ stack[p][k].password = password

\* C2 (amended): when the re-login is due, the counter is incremented, then
\* Login is called with the stored credentials; if Login succeeds the
\* request is dispatched a third and last time with the token cached by
\* Login's token fetch and its outcome ends the call; if Login fails the call
\* ends with the AuthenticationError "failed to re-authenticate" and no
\* third dispatch.
C2_ReloginThenFinalRetry ==
    /\ \A p \in Procs : \A i \in Idx(p) :
           SawReloginDue(Ev(p, i)) =>
               /\ C2_Order(p, i)
               /\ \A j \in (i + 1)..Len(hist[p]) :
                      Is(Ev(p, j), "relogged") =>
                          IF Ev(p, j).ok
                          THEN Idle(p) => IsDispatch(Last(p))
                          ELSE /\ j = Len(hist[p])
                               /\ Idle(p)
                               /\ ret[p] = DoRet(0, NewAuthenticationError(
                                               "failed to re-authenticate"))
               /\ Idle(p) => Count(p, "relogged") = 1
    /\ C2_StoredCredentials
    /\ \A p \in Procs :
           At(p, "DoRequest", "final") => /\ Top(p).header = csrfToken
                                          /\ Top(p).header # NoToken

C2_Witness ==
    \E p \in Procs : \E i \in Idx(p) :
        /\ SawReloginDue(Ev(p, i))
        /\ Done(p, "DoRequest")
        /\ IsDispatch(Last(p))
        /\ Last(p).status = StatusOK

\* ------------------------------------------------------------------- C5
\* the lazy token fetches (issued by GetCSRFToken) that succeeded, over all
\* callers
LazyFetchesOf(p) ==
    {i \in Idx(p) : IsFetch(Ev(p, i)) /\ ~Ev(p, i).forced}
LazyFetches ==
    UNION {{<<p, i>> : i \in LazyFetchesOf(p)} : p \in Procs}
LazyFetchesOK ==
    {x \in LazyFetches : Ev(x[1], x[2]).ok}

BothProtected == \A p \in Procs : Protected(p)

\* C5 as stated: two concurrent protected requests on a client without a
\* cached token make exactly one lazy token fetch between them, once both
\* have a token or have ended.
C5_ExactlyOneFetch ==
    BothProtected => Cardinality(LazyFetches) <= 1

\* GetCSRFToken returns at this step
GetCSRFTokenReturns(p) ==
    /\ ~Idle(p)
    /\ Top(p).fn = "GetCSRFToken"
    /\ stack'[p] = Tail(stack[p])

\* the state part of C5
C5_Inv ==
    /\ Cardinality(LazyFetchesOK) <= 1
    /\ \A x \in LazyFetches : ~Ev(x[1], x[2]).cached
    /\ \A p \in Procs : \A i \in Idx(p) :
           Is(Ev(p, i), "rechecked") =>
               \A j \in Idx(p) : ~(IsFetch(Ev(p, j)) /\ ~Ev(p, j).forced)
    /\ \A p \in Procs :
           (At(p, "DoRequest", "do") /\ Top(p).needsCSRF) =>
               Top(p).header # NoToken

C5_Step ==
    /\ csrfToken # NoToken => csrfToken' # NoToken
    /\ \A p \in Procs :
           (GetCSRFTokenReturns(p) /\ ret'[p].err = NoErr) =>
               /\ ret'[p].token = csrfToken'
               /\ ret'[p].token # NoToken

\* C5 (amended): among concurrent callers at most one lazy token fetch
\* succeeds, and a lazy fetch is issued only while no token is cached (a
\* failed one may be followed by another caller's); a caller that finds the
\* token under the lock fetches nothing; every GetCSRFToken that succeeds
\* returns the token cached at that moment, and a cached token is never
\* removed.
C5_OneSuccessfulLazyFetch == []C5_Inv /\ [][C5_Step]_vars

C5_Witness ==
    \E p, q \in Procs :
        /\ p # q
        /\ Done(p, "DoRequest") /\ Protected(p)
        /\ Done(q, "DoRequest") /\ Protected(q)
        /\ \E i \in Idx(p) : /\ IsFetch(Ev(p, i))
                             /\ ~Ev(p, i).forced
                             /\ Ev(p, i).ok
        /\ \E i \in Idx(q) : Is(Ev(q, i), "rechecked")
        /\ \E i \in Idx(q) : /\ IsDispatch(Ev(q, i))
                             /\ Ev(q, i).csrf
                             /\ Ev(q, i).status = StatusOK

\* ------------------------------------------------------------------- C6
\* a token fetch succeeded before the caller's current call began
FetchedEarlier(p) ==
    /\ lastFetched # NoToken
    /\ \A i \in Idx(p) : ~(IsFetch(Ev(p, i)) /\ Ev(p, i).ok)

No401(p) == \A i \in Idx(p) :
                IsDispatch(Ev(p, i)) => Ev(p, i).status # StatusUnauthorized

\* C6: once a token fetch has succeeded the cache holds the fetched token;
\* every later GetCSRFToken call returns it without a token fetch, and every
\* later protected request that receives no 401 attaches it without a token
\* fetch.
C6_TokenReuse ==
    /\ csrfToken = lastFetched
    /\ \A p \in Procs :
         FetchedEarlier(p) =>
           /\ Called(p, "GetCSRFToken") =>
                 /\ Count(p, "tokenfetch") = 0
                 /\ Idle(p) =>
                        ret[p] = RetVal("GetCSRFToken", lastFetched, 0, NoErr)
           /\ (Protected(p) /\ No401(p)) =>
                 /\ Count(p, "tokenfetch") = 0
                 /\ \A i \in Idx(p) : IsDispatch(Ev(p, i)) => Ev(p, i).csrf
                 /\ At(p, "DoRequest", "do") => Top(p).header = lastFetched
    /\ \A p \in Procs :
         (Done(p, "FetchCSRFToken") /\ ret[p].err = NoErr) =>
             /\ ret[p].token = csrfToken
             /\ ret[p].token # NoToken

C6_Witness ==
    \E p \in Procs :
        /\ FetchedEarlier(p)
        /\ Done(p, "DoRequest")
        /\ Protected(p)
        /\ Len(Dispatches(p)) = 1
        /\ Dispatches(p)[1].status = StatusOK
        /\ Dispatches(p)[1].csrf

\* ------------------------------------------------------------------- C7
\* C7: when the forced refresh that follows a 401 on a protected request
\* fails, the cached token is no longer the rejected one (it was cleared), so
\* GetCSRFToken cannot return it again.
C7_RejectedTokenCleared ==
    \A p \in Procs :
        (At(p, "DoRequest", "refreshed") /\ ret[p].err # NoErr) =>
            csrfToken # Top(p).header

\* ------------------------------------------------------------------- C8
\* a login that ends in an error after it has reset a non-zero counter
ResetThenFailed(p, i) ==
    /\ Is(Ev(p, i), "reset")
    /\ Ev(p, i).from # 0
    /\ \/ \E j \in (i + 1)..Len(hist[p]) :
              Is(Ev(p, j), "relogged") /\ ~Ev(p, j).ok
       \/ (Done(p, "Login") \/ Done(p, "LoginWithBrowser"))
              /\ ret[p].err # NoErr

C8_Increment ==
    /\ authAttempts' = authAttempts + 1
    /\ \E p \in Procs : /\ At(p, "DoRequest", "add")
                        /\ stack'[p] # stack[p]

\* the Store(0) of a login whose credentials were accepted and stored
C8_Reset ==
    /\ authAttempts' = 0
    /\ \E p \in Procs :
           /\ At(p, "Login", "reset") \/ At(p, "LoginWithBrowser", "reset")
           /\ stack'[p] # stack[p]

C8_Inv ==
    /\ authAttempts >= 0
    /\ \A p \in Procs :
         /\ Called(p, "DoRequest") => Count(p, "add") <= 1
         /\ ((Done(p, "Login") \/ Done(p, "LoginWithBrowser"))
                 /\ ret[p].err = NoErr) =>
                /\ authAttempts = 0
                /\ Count(p, "reset") = 1
         /\ (At(p, "DoRequest", "relogged") /\ ret[p].err = NoErr) =>
                authAttempts = 0

InRelogin(p) ==
    \E k \in 1..(Len(stack[p]) - 1) :
        /\ stack[p][k].fn = "Login"
        /\ stack[p][k + 1].fn = "DoRequest"
        /\ stack[p][k].pc \in {"posted", "store", "reset", "fetched"}

\* caller q reads the cached token or the credentials at this step
ReadsShared(q) ==
    /\ At(q, "GetCSRFToken", "read") \/ At(q, "DoRequest", "creds")
    /\ stack'[q] # stack[q]

C9_AtMostOneRelogin ==
    \A p, q \in Procs : (p # q /\ InRelogin(p)) => ~InRelogin(q)

C9_NoForeignRead ==
    \A p, q \in Procs : (p # q /\ InRelogin(p)) => ~ReadsShared(q)

\* C9: at most one re-login is in progress at any time, and while one is in
\* progress no other caller reads the cached token or the credentials.
C9_ReloginExclusive == []C9_AtMostOneRelogin /\ [][C9_NoForeignRead]_vars

\* ------------------------------------------------------------------ C10
\* C10 as stated: a completed DoRequest with needsCSRF=false has dispatched
\* the request exactly once.
C10_DispatchedExactlyOnce ==
    \A p \in Procs :
        (Done(p, "DoRequest") /\ Unprotected(p)) => Len(Dispatches(p)) = 1

EarlyReturns ==
    {DoRet(0, Wrapped("context canceled")),
     DoRet(0, Wrapped("failed to read request body")),
     DoRet(0, Wrapped("failed to create request"))}

C10_Inv ==
    \A p \in Procs :
        Unprotected(p) =>
            /\ Count(p, "tokenfetch") = 0
            /\ Count(p, "rechecked") = 0
            /\ Count(p, "creds") = 0
            /\ Count(p, "add") = 0
            /\ Count(p, "login") = 0
            /\ Len(Dispatches(p)) <= 1
            /\ \A i \in Idx(p) : IsDispatch(Ev(p, i)) => ~Ev(p, i).csrf
            /\ Idle(p) =>
                 IF Len(Dispatches(p)) = 0
                 THEN ret[p] \in EarlyReturns
                 ELSE ret[p] = IF Dispatches(p)[1].status = NetErr
                               THEN DoRet(0, Wrapped("request failed"))
                               ELSE DoRet(Dispatches(p)[1].status, NoErr)

C10_Frame ==
    \A p \in Procs :
        (\/ Unprotected(p) /\ ~Idle(p)
         \/ /\ ~Idle(p)
            /\ Top(p).fn = "DoRequest"
            /\ ~Top(p).needsCSRF
            /\ stack'[p] # stack[p]) =>
            UNCHANGED <<csrfToken, username, password, authAttempts, mu,
                        lastFetched>>

\* C10 (amended): DoRequest with needsCSRF=false dispatches the request at
\* most once, without a CSRF header: exactly once unless it returns early
\* because the context is already cancelled, the body cannot be read or the
\* request cannot be built; it never fetches a token, retries or re-logins
\* whatever the status (401 included), returns the response as it is, and
\* leaves the cached token, the credentials and the retry counter unchanged.
C10_UnprotectedIsOneShot == []C10_Inv /\ [][C10_Frame]_vars

C10_Witness ==
    \E p \in Procs :
        /\ Done(p, "DoRequest")
        /\ Unprotected(p)
        /\ Len(Dispatches(p)) = 1
        /\ Dispatches(p)[1].status = StatusUnauthorized
        /\ ret[p] = DoRet(StatusUnauthorized, NoErr)
        /\ csrfToken # NoToken

\* ------------------------------------------------------------------ C11
\* caller p starts a network request at this step: a token fetch, the
\* session-page GET of InitializeSession, or a dispatch that reaches the
\* server
StartsRequest(p) ==
    /\ Len(hist'[p]) = Len(hist[p]) + 1
    /\ LET ev == hist'[p][Len(hist'[p])] IN
         \/ IsFetch(ev)
         \/ Is(ev, "init")
         \/ Is(ev, "dispatch") /\ ev.status # NetErr

\* C11: once the caller's cancellation signal is set during a call, the
\* call starts no further network request (dispatch, token fetch, or request
\* of a re-login).
C11_NoRequestAfterCancel ==
    [][\A p \in Procs :
           (Called(p, "DoRequest") /\ ~Idle(p) /\ ctx[p] = "done") =>
               ~StartsRequest(p)]_vars

\* ------------------------------------------------------------------ C12
\* a top-level Login or LoginWithBrowser call of caller p has returned
LoginReturned(p) == Done(p, "Login") \/ Done(p, "LoginWithBrowser")

\* the call's last two events are the counter reset and the closing forced
\* token fetch
IsTeardown(ev) == Is(ev, "closepage") \/ Is(ev, "closebrowser")
NotTeardown(ev) == ~IsTeardown(ev)
BeforeTeardown(p) == SelectSeq(hist[p], NotTeardown)
LastBeforeTeardown(p) == BeforeTeardown(p)[Len(BeforeTeardown(p))]
EndsWithResetAndFetch(p) ==
    LET h == BeforeTeardown(p)
        n == Len(h) IN
    /\ n >= 3
    /\ Is(h[n - 1], "reset")
    /\ IsFetch(h[n])
    /\ h[n].forced

\* C12: Login and LoginWithBrowser return success only after the retry
\* counter was cleared and the token fetch that follows succeeded, so the
\* counter is 0 and a non-empty token is cached on return; when that token
\* fetch fails the login returns the AuthenticationError "failed to fetch
\* CSRF token after login".
C12_LoginEndsWithTokenFetch ==
    \A p \in Procs :
        LoginReturned(p) =>
            /\ ret[p].err = NoErr =>
                   /\ EndsWithResetAndFetch(p)
                   /\ LastBeforeTeardown(p).ok
                   /\ authAttempts = 0
                   /\ csrfToken # NoToken
                   /\ csrfToken = lastFetched
            /\ (EndsWithResetAndFetch(p) /\ ~LastBeforeTeardown(p).ok) =>
                   ret[p].err = NewAuthenticationError(
                                    "failed to fetch CSRF token after login")

C12_Witness ==
    \E p \in Procs :
        /\ Done(p, "LoginWithBrowser")
        /\ ret[p].err = NoErr
        /\ EndsWithResetAndFetch(p)
        /\ csrfToken # NoToken

\* ------------------------------------------------------------------ C13
IsNetwork(ev) == IsFetch(ev) \/ Is(ev, "init") \/ Is(ev, "dispatch")

InvalidCredentials(u, pw) == u = "" \/ pw = "" \/ StrLen(pw) < MinPasswordLen

AtLoginEntry(p) == At(p, "Login", "begin") \/ At(p, "LoginWithBrowser", "begin")

\* a login that returned a ValidationError issued no network request and
\* launched no browser; at its entry nothing has happened yet
C13_Inv ==
    \A p \in Procs :
        /\ (LoginReturned(p) /\ ret[p].err.type = "ValidationError") =>
               \A i \in Idx(p) : ~IsNetwork(Ev(p, i)) /\ ~Is(Ev(p, i), "launch")
        /\ (AtLoginEntry(p) /\ Called(p, Top(p).fn)) => Len(hist[p]) = 1

\* the first step of a login given invalid credentials returns a
\* ValidationError and starts nothing; given valid ones it does not return
C13_Step ==
    \A p \in Procs :
        (AtLoginEntry(p) /\ stack'[p] # stack[p]) =>
            IF InvalidCredentials(Top(p).username, Top(p).password)
            THEN /\ stack'[p] = Tail(stack[p])
                 /\ ret'[p].err.type = "ValidationError"
                 /\ hist'[p] \in {hist[p], Append(hist[p], [e |-> "login"])}
            ELSE Len(stack'[p]) = Len(stack[p])

\* C13: Login and LoginWithBrowser, given an empty username, an empty
\* password or a password shorter than 6 characters, return a
\* ValidationError before any network request is issued and before a
\* browser is launched.
C13_ValidationFirst == []C13_Inv /\ [][C13_Step]_vars

C13_Witness ==
    \E p \in Procs :
        /\ Done(p, "LoginWithBrowser")
        /\ ret[p].err = NewValidationError(
               "password", "password must be at least 6 characters")
        /\ Len(hist[p]) = 1

\* ------------------------------------------------------------------ C14
Is2xx(status) == status >= 200 /\ status <= 299

\* Login has the response of its credential POST in hand
LoginHasResponse(p) == At(p, "Login", "posted") /\ ret[p].err = NoErr

\* C14: Login maps the status of the credential POST: 401 or 403 ends the
\* login with an AuthenticationError, every other status outside 2xx with an
\* APIError carrying the status, and every 2xx status lets the login go on
\* as successful.
C14_LoginStatusMapping ==
    [][\A p \in Procs :
           (LoginHasResponse(p) /\ stack'[p] # stack[p]) =>
               IF ret[p].resp \in {StatusUnauthorized, StatusForbidden}
               THEN /\ stack'[p] = Tail(stack[p])
                    /\ ret'[p].err.type = "AuthenticationError"
               ELSE IF ~Is2xx(ret[p].resp)
               THEN /\ stack'[p] = Tail(stack[p])
                    /\ ret'[p].err.type = "APIError"
                    /\ ret'[p].err.status = ret[p].resp
               ELSE /\ Len(stack'[p]) = Len(stack[p])
                    /\ Top(p)' = [Top(p) EXCEPT !.pc = "store"]]_vars

\* ------------------------------------------------------------------ C15
\* C15: when LoginWithBrowser has returned, a browser it launched has been
\* torn down and a page it opened has been closed, on every exit path.
C15_BrowserTornDown ==
    \A p \in Procs :
        Done(p, "LoginWithBrowser") =>
            /\ Count(p, "launch") > 0 => Count(p, "closebrowser") > 0
            /\ Count(p, "page") > 0 => Count(p, "closepage") > 0

\* ================================================== domain operations
\* ----------------------------------------------------------------- strings
\* the byte at position i of s, as a one-character string
Char(s, i) == SubSeq(s, i, i)
Digits == {"0", "1", "2", "3", "4", "5", "6", "7", "8", "9"}
\* every byte of s matches \d
IsDigits(s) == \A i \in 1..Len(s) : Char(s, i) \in Digits
\* the bytes matched by \s
Whitespace == {" ", "\t", "\n", "\f", "\r"}

HasSuffix(s, suffix) ==
    /\ Len(s) >= Len(suffix)
    /\ SubSeq(s, Len(s) - Len(suffix) + 1, Len(s)) = suffix
TrimSuffix(s, suffix) ==
    IF HasSuffix(s, suffix) THEN SubSeq(s, 1, Len(s) - Len(suffix)) ELSE s

RECURSIVE ReplaceAll(_, _, _)
\* strings.ReplaceAll for a one-byte old
ReplaceAll(s, old, new) ==
    IF s = "" THEN ""
    ELSE (IF Head(s) = old THEN new ELSE Head(s))
         \o ReplaceAll(Tail(s), old, new)

LowerChar(c) ==
    CASE c = "A" -> "a" [] c = "B" -> "b" [] c = "C" -> "c" [] c = "D" -> "d"
      [] c = "E" -> "e" [] c = "F" -> "f" [] c = "G" -> "g" [] c = "H" -> "h"
      [] c = "I" -> "i" [] c = "J" -> "j" [] c = "K" -> "k" [] c = "L" -> "l"
      [] c = "M" -> "m" [] c = "N" -> "n" [] c = "O" -> "o" [] c = "P" -> "p"
      [] c = "Q" -> "q" [] c = "R" -> "r" [] c = "S" -> "s" [] c = "T" -> "t"
      [] c = "U" -> "u" [] c = "V" -> "v" [] c = "W" -> "w" [] c = "X" -> "x"
      [] c = "Y" -> "y" [] c = "Z" -> "z" [] OTHER -> c

RECURSIVE ToLower(_)
\* strings.ToLower on ASCII text
ToLower(s) == IF s = "" THEN "" ELSE LowerChar(Head(s)) \o ToLower(Tail(s))

\* strings.Contains
Contains(s, substr) ==
    \E i \in 0..(Len(s) - Len(substr)) : SubSeq(s, i + 1, i + Len(substr)) = substr

\* the first position in s of a byte of the set cs, 0 when there is none
IndexAny(s, cs) ==
    IF \E i \in 1..Len(s) : Char(s, i) \in cs
    THEN CHOOSE i \in 1..Len(s) :
             /\ Char(s, i) \in cs
             /\ \A j \in 1..(i - 1) : Char(s, j) \notin cs
    ELSE 0

RECURSIVE Repeat(_, _)
\* strings.Repeat
Repeat(s, count) ==
    IF count = 0 THEN ""
    ELSE IF count % 2 = 1 THEN s \o Repeat(s, count - 1)
    ELSE LET half == Repeat(s, count \div 2) IN half \o half

\* ------------------------------------------------------------- validation
\* productCodeRegex = ^\d+_(ST|KG)$
MatchProductCode(code) ==
    \E suffix \in {"_ST", "_KG"} :
        /\ HasSuffix(code, suffix)
        /\ Len(code) > Len(suffix)
        /\ IsDigits(TrimSuffix(code, suffix))

\* postalCodeRegex = ^\d{5}$|^\d{3}\s?\d{2}$
MatchPostalCode(postalCode) ==
    \/ Len(postalCode) = 5 /\ IsDigits(postalCode)
    \/ /\ Len(postalCode) = 6
       /\ IsDigits(SubSeq(postalCode, 1, 3))
       /\ Char(postalCode, 4) \in Whitespace
       /\ IsDigits(SubSeq(postalCode, 5, 6))

ValidatePostalCode(postalCode) ==
    IF postalCode = ""
    THEN NewValidationError("postal_code", "cannot be empty")
    ELSE IF ~MatchPostalCode(postalCode)
    THEN NewValidationError("postal_code",
                            "invalid format (expected: 12345 or 123 45)")
    ELSE NoErr

ValidateProductCode(code) ==
    IF code = ""
    THEN NewValidationError("product_code", "cannot be empty")
    ELSE IF ~MatchProductCode(code)
    THEN NewValidationError("product_code",
             "invalid format (expected: 123456_ST or 123456_KG)")
    ELSE NoErr

MinQuantity == 1
MaxQuantity == 999

\* a quantity check without the upper limit
ValidateQuantity_NoMax(quantity) ==
    IF quantity < MinQuantity
    THEN NewValidationError("quantity", "must be at least 1")
    ELSE NoErr

ValidateQuantity(quantity) ==
    IF quantity < MinQuantity
    THEN NewValidationError("quantity", "must be at least 1")
    ELSE IF quantity > MaxQuantity
    THEN NewValidationError("quantity", "max 999")
    ELSE NoErr

maxAddressLength == 100
maxNameLength == 50
maxCityLength == 50
maxDoorCodeLength == 20
maxMessageLength == 500

ValidateDeliveryAddress(address) ==
    IF address.FirstName = ""
    THEN NewValidationError("first_name", "required")
    ELSE IF Len(address.FirstName) > maxNameLength
    THEN NewValidationError("first_name", "max characters")
    ELSE IF address.LastName = ""
    THEN NewValidationError("last_name", "required")
    ELSE IF Len(address.LastName) > maxNameLength
    THEN NewValidationError("last_name", "max characters")
    ELSE IF address.Address = ""
    THEN NewValidationError("address", "required")
    ELSE IF Len(address.Address) > maxAddressLength
    THEN NewValidationError("address", "max characters")
    ELSE IF address.City = ""
    THEN NewValidationError("city", "required")
    ELSE IF Len(address.City) > maxCityLength
    THEN NewValidationError("city", "max characters")
    ELSE IF Len(address.DoorCode) > maxDoorCodeLength
    THEN NewValidationError("door_code", "max characters")
    ELSE IF Len(address.MessageToDriver) > maxMessageLength
    THEN NewValidationError("message_to_driver", "max characters")
    ELSE ValidatePostalCode(address.PostalCode)

\* ------------------------------------------------------------ float64 values
\* a float64 is a fraction num/den (den > 0), NaN, or an infinity of sign num
Num(num, den) == [num |-> num, den |-> den, kind |-> "num"]
NaN == [num |-> 0, den |-> 1, kind |-> "nan"]
Inf(sign) == [num |-> sign, den |-> 1, kind |-> "inf"]
Zero == Num(0, 1)

\* a > b on float64: false when either side is NaN
Gt(a, b) ==
    CASE a.kind = "nan" \/ b.kind = "nan" -> FALSE
      [] a.kind = "inf" /\ b.kind = "inf" -> a.num > b.num
      [] a.kind = "inf" -> a.num > 0
      [] b.kind = "inf" -> b.num < 0
      [] OTHER -> a.num * b.den > b.num * a.den
Lt(a, b) == Gt(b, a)
Negate(a) == [a EXCEPT !.num = 0 - a.num]
\* a + b and a / b on finite values (b # 0)
AddNum(a, b) == IF a.den = b.den THEN Num(a.num + b.num, a.den)
               ELSE Num(a.num * b.den + b.num * a.den, a.den * b.den)
DivNum(a, b) == IF b.num > 0 THEN Num(a.num * b.den, a.den * b.num)
                ELSE Num(0 - a.num * b.den, a.den * (0 - b.num))
MulNum(a, b) == Num(a.num * b.num, a.den * b.den)

DigitVal(c) ==
    CASE c = "0" -> 0 [] c = "1" -> 1 [] c = "2" -> 2 [] c = "3" -> 3
      [] c = "4" -> 4 [] c = "5" -> 5 [] c = "6" -> 6 [] c = "7" -> 7
      [] c = "8" -> 8 [] c = "9" -> 9

RECURSIVE ParseDigits(_)
\* the number written by a string of decimal digits
ParseDigits(s) ==
    IF s = "" THEN 0
    ELSE 10 * ParseDigits(SubSeq(s, 1, Len(s) - 1)) + DigitVal(Char(s, Len(s)))

RECURSIVE Pow10(_)
Pow10(k) == IF k = 0 THEN 1 ELSE 10 * Pow10(k - 1)

RECURSIVE TrimLeadingZeros(_)
TrimLeadingZeros(s) ==
    IF s # "" /\ Head(s) = "0" THEN TrimLeadingZeros(Tail(s)) ELSE s

\* the largest finite float64 is below 1.8e308
MaxDecimalExponent == 308

\* strconv.ParseFloat(s, 64) on an unsigned decimal literal
\* digits [ "." digits ] [ ("e"|"E") [sign] digits ]: a malformed literal
\* is a syntax error with value 0, a literal of 1e309 or more is a range
\* error with value +Inf.  (A value between 1e308 and 1e309 is outside what
\* this operator computes.)
ParseDecimal(s) ==
    LET ePos == IndexAny(s, {"e", "E"})
        mantissa == IF ePos = 0 THEN s ELSE SubSeq(s, 1, ePos - 1)
        exponent == IF ePos = 0 THEN "" ELSE SubSeq(s, ePos + 1, Len(s))
        dot == IndexAny(mantissa, {"."})
        ip == IF dot = 0 THEN mantissa ELSE SubSeq(mantissa, 1, dot - 1)
        fp == IF dot = 0 THEN "" ELSE SubSeq(mantissa, dot + 1, Len(mantissa))
        esigned == exponent # "" /\ Head(exponent) \in {"+", "-"}
        edigits == IF esigned THEN Tail(exponent) ELSE exponent
        okMantissa == IsDigits(ip) /\ IsDigits(fp) /\ Len(ip) + Len(fp) > 0
        okExponent == ePos = 0 \/ (edigits # "" /\ IsDigits(edigits))
        sig == TrimLeadingZeros(ip \o fp)
        exp10 == IF esigned /\ Head(exponent) = "-"
                 THEN 0 - ParseDigits(edigits) ELSE ParseDigits(edigits)
        magnitude == Len(sig) - Len(fp) + exp10
    IN  IF ~okMantissa \/ ~okExponent THEN [ok |-> FALSE, val |-> Zero]
        ELSE IF sig = "" THEN [ok |-> TRUE, val |-> Zero]
        ELSE IF magnitude > MaxDecimalExponent + 1
        THEN [ok |-> FALSE, val |-> Inf(1)]
        ELSE [ok |-> TRUE,
              val |-> Num(ParseDigits(ip \o fp)
                              * Pow10(IF exp10 > 0 THEN exp10 ELSE 0),
                          Pow10(Len(fp) + IF exp10 < 0 THEN 0 - exp10 ELSE 0))]

\* strconv.ParseFloat(s, 64): the value and whether err == nil.  Besides
\* decimal literals it accepts "NaN" and the optionally signed "Inf" and
\* "Infinity" in any case.  (Hexadecimal literals and digit-separating
\* underscores are outside what this operator computes.)
ParseFloat(s) ==
    LET lower == ToLower(s)
        signed == s # "" /\ Head(s) \in {"+", "-"}
        negative == signed /\ Head(s) = "-"
        body == IF signed THEN Tail(s) ELSE s
        r == ParseDecimal(body)
    IN  IF (IF signed THEN Tail(lower) ELSE lower) \in {"inf", "infinity"}
        THEN [ok |-> TRUE, val |-> Inf(IF negative THEN 0 - 1 ELSE 1)]
        ELSE IF lower = "nan" THEN [ok |-> TRUE, val |-> NaN]
        ELSE [ok |-> r.ok, val |-> IF negative THEN Negate(r.val) ELSE r.val]

\* ------------------------------------------------------------------ search
\* a nil pointer is the empty sequence, a non-nil one holds its target
Nil == <<>>
Ptr(x) == <<x>>
Deref(ptr) == ptr[1]

\* priceStr without a trailing " kr", decimal commas turned into points,
\* parsed with the error of ParseFloat discarded
parseComparePriceToFloat(priceStr) ==
    ParseFloat(ReplaceAll(TrimSuffix(priceStr, " kr"), ",", ".")).val

\* the comparison that drops a product on price
OverCeiling(comparePrice, maxPrice) == Gt(comparePrice, maxPrice)

\* the first check of the filter loop: continue when the price is too high
DroppedOnPrice(p, prefs) ==
    /\ Gt(prefs.MaxPricePerUnit, Zero)
    /\ OverCeiling(parseComparePriceToFloat(p.ComparePrice),
                   prefs.MaxPricePerUnit)

lowercaseRequired(prefs) ==
    [i \in 1..Len(prefs.RequiredLabels) |-> ToLower(prefs.RequiredLabels[i])]

\* a label check that lowers only the required labels
hasAllRequired_CaseSensitive(p, required) ==
    \A i \in 1..Len(required) :
        \E j \in 1..Len(p.Labels) : Contains(p.Labels[j], required[i])

hasAllRequired(p, required) ==
    \A i \in 1..Len(required) :
        \E j \in 1..Len(p.Labels) : Contains(ToLower(p.Labels[j]), required[i])

\* a label check that lets products without labels through
DroppedOnLabels_OnlyLabelled(p, prefs) ==
    /\ Len(lowercaseRequired(prefs)) > 0
    /\ p.Labels # <<>>
    /\ ~hasAllRequired(p, lowercaseRequired(prefs))

\* the second check of the filter loop
DroppedOnLabels(p, prefs) ==
    /\ Len(lowercaseRequired(prefs)) > 0
    /\ ~hasAllRequired(p, lowercaseRequired(prefs))

RECURSIVE filterLoop(_, _, _)
filterLoop(products, prefs, filtered) ==
    IF products = <<>> THEN filtered
    ELSE filterLoop(Tail(products), prefs,
                    IF \/ DroppedOnPrice(Head(products), prefs)
                       \/ DroppedOnLabels(Head(products), prefs)
                    THEN filtered
                    ELSE Append(filtered, Head(products)))

filterProducts(products, prefs) == filterLoop(products, prefs, <<>>)

qualityLabels == {"krav", "ekologisk", "nyckelhål", "svensk"}

\* a count that stops at the first label containing a quality word
QualityHits_FirstOnly(p) ==
    {j \in 1..Len(p.Labels) :
         /\ \E quality \in qualityLabels : Contains(ToLower(p.Labels[j]), quality)
         /\ \A k \in 1..(j - 1) :
                \A quality \in qualityLabels :
                    ~Contains(ToLower(p.Labels[k]), quality)}

\* the labels of p that contain a quality word
QualityHits(p) ==
    {j \in 1..Len(p.Labels) :
         \E quality \in qualityLabels : Contains(ToLower(p.Labels[j]), quality)}

calculateValueScore(p) ==
    LET comparePrice == parseComparePriceToFloat(p.ComparePrice)
        fromPrice == IF Gt(comparePrice, Zero) /\ comparePrice.kind = "num"
                     THEN DivNum(Num(100, 1), comparePrice) ELSE Zero
        fromLabels == Num(10 * Cardinality(QualityHits(p)), 1)
        fromSavings == IF p.SavingsAmount # Nil
                          /\ Gt(Deref(p.SavingsAmount), Zero)
                       THEN MulNum(Deref(p.SavingsAmount), Num(1, 2))
                       ELSE Zero
    IN  AddNum(AddNum(fromPrice, fromLabels), fromSavings)

\* the less function handed to sort.Slice
\* a comparison that falls back to the compare price for any other mode
less_DefaultByPrice(prefs, pi, pj) ==
    IF prefs.SortBy \in {"cheapest", "best_value", "highest_quality"}
    THEN FALSE
    ELSE Lt(parseComparePriceToFloat(pi.ComparePrice),
            parseComparePriceToFloat(pj.ComparePrice))

less(prefs, pi, pj) ==
    CASE prefs.SortBy = "cheapest" ->
             Lt(parseComparePriceToFloat(pi.ComparePrice),
                parseComparePriceToFloat(pj.ComparePrice))
      [] prefs.SortBy = "best_value" ->
             Gt(calculateValueScore(pi), calculateValueScore(pj))
      [] prefs.SortBy = "highest_quality" ->
             IF Len(pi.Labels) # Len(pj.Labels)
             THEN Len(pi.Labels) > Len(pj.Labels)
             ELSE Lt(parseComparePriceToFloat(pi.ComparePrice),
                     parseComparePriceToFloat(pj.ComparePrice))
      [] OTHER -> FALSE

Swap(data, i, j) == [data EXCEPT ![i] = data[j], ![j] = data[i]]

RECURSIVE insertDown(_, _, _)
\* for j := i; j > a && less(data[j], data[j-1]); j-- { data.Swap(j, j-1) }
insertDown(data, prefs, j) ==
    IF j > 1 /\ less(prefs, data[j], data[j - 1])
    THEN insertDown(Swap(data, j, j - 1), prefs, j - 1)
    ELSE data

RECURSIVE insertionSort(_, _, _)
\* for i := a + 1; i < b; i++ { ... }
insertionSort(data, prefs, i) ==
    IF i > Len(data) THEN data
    ELSE insertionSort(insertDown(data, prefs, i), prefs, i + 1)

\* sort.Slice(products, less): for up to 12 elements the library runs this
\* insertion sort
sortProducts(products, prefs) == insertionSort(products, prefs, 2)

\* ------------------------------------------------- operations: common parts
MaxLen == 3
MaxOps == 1

\* the frame of a domain operation: its arguments and one local variable
OpFrame(f, args) == [fn |-> f, pc |-> "begin", args |-> args, local |-> 0]
\* what a domain operation returns: its result and its error
OpRet(f, val, e) ==
    [fn |-> f, token |-> NoToken, resp |-> 0, err |-> e, val |-> val]
NewNotFoundError(resource, id) == Err("NotFoundError", resource)

\* the client state, which the domain operations reach only through DoRequest
ClientVars == <<csrfToken, username, password, authAttempts, mu, ctx,
                lastFetched, budget>>

\* the domain operation calls c.DoRequest(ctx, method, path, body, needsCSRF)
\* and continues at label l
CallDoRequest(p, l, req, needsCSRF) ==
    /\ Call(p, [Top(p) EXCEPT !.pc = l], DoRequestFrame(req, needsCSRF, "ok"))
    /\ UNCHANGED <<ret, hist, ClientVars, server, jar>>

\* the operation returns r without touching anything else
ReturnOp(p, r) == /\ Return(p, r)
                  /\ UNCHANGED <<hist, ClientVars, server, jar>>

ResponseError_IgnoreStatus(r, accepted, requestMsg, statusMsg) ==
    IF r.err # NoErr THEN NewAPIError(0, requestMsg) ELSE NoErr

\* how an operation maps the outcome r of DoRequest: a transport error, a
\* status outside the accepted ones
ResponseError(r, accepted, requestMsg, statusMsg) ==
    IF r.err # NoErr THEN NewAPIError(0, requestMsg)
    ELSE IF r.resp \notin accepted THEN NewAPIError(r.resp, statusMsg)
    ELSE NoErr

\* -------------------------------------------------------------- SearchProducts
Queries == {"", "milk"}
Pages == {0 - 1, 0}
MaxPageSize == 100
Sizes == {0, 20, MaxPageSize + 1}

Products ==
    {[ComparePrice |-> "50 kr", Labels |-> <<"KRAV">>,
      SavingsAmount |-> Nil, Code |-> "101_ST"],
     [ComparePrice |-> "50,01 kr", Labels |-> <<"Svensk", "Ekologisk">>,
      SavingsAmount |-> Nil, Code |-> "102_ST"],
     [ComparePrice |-> "10,50 kr", Labels |-> <<"Svenskt", "Kravodlad">>,
      SavingsAmount |-> Ptr(Num(5, 1)), Code |-> "103_KG"],
     [ComparePrice |-> "abc", Labels |-> <<>>,
      SavingsAmount |-> Nil, Code |-> "104_ST"],
     [ComparePrice |-> "NaN kr", Labels |-> <<"krav">>,
      SavingsAmount |-> Nil, Code |-> "105_ST"],
     [ComparePrice |-> "1e999 kr", Labels |-> <<>>,
      SavingsAmount |-> Nil, Code |-> "106_ST"]}
ProductLists == UNION {[1..n -> Products] : n \in 0..MaxLen}

Ceilings == {Zero, Num(0 - 1, 1), Num(50, 1)}
SortModes == {"", "cheapest", "best_value", "highest_quality", "price"}
RequiredLabelLists == {<<>>, <<"Krav">>, <<"Krav", "SVENSK">>}
Preferences ==
    {Nil} \cup
    {Ptr(x) : x \in [MaxPricePerUnit : Ceilings,
                     RequiredLabels : RequiredLabelLists,
                     SortBy : SortModes]}

\* what the search endpoint answers with status 200: a body that cannot be
\* read, one that is not the expected JSON, or a result list
SearchBodies ==
    {[shape |-> "unreadable", results |-> <<>>],
     [shape |-> "notjson", results |-> <<>>]}
    \cup [shape : {"json"}, results : ProductLists]

SearchFrame(query, page, size, prefs) ==
    OpFrame("SearchProducts",
            [page |-> page, prefs |-> prefs, query |-> query, size |-> size])

StartSearchProducts(p) ==
    /\ Idle(p)
    /\ \E query \in Queries, page \in Pages, size \in Sizes,
          prefs \in Preferences :
           Start(p, SearchFrame(query, page, size, prefs), "live")

ValidateSearch(query, page, size) ==
    IF query = ""
    THEN NewValidationError("query", "search query cannot be empty")
    ELSE IF page < 0
    THEN NewValidationError("page", "page number cannot be negative")
    ELSE IF size <= 0 \/ size > MaxPageSize
    THEN NewValidationError("size", "page size must be between 1 and 100")
    ELSE NoErr

SearchRet(val, e) == OpRet("SearchProducts", val, e)

\* the input checks, then the GET through DoRequest(..., false)
SearchProductsBegin(p) ==
    /\ At(p, "SearchProducts", "begin")
    /\ LET a == Top(p).args
           e == ValidateSearch(a.query, a.page, a.size) IN
         IF e # NoErr THEN ReturnOp(p, SearchRet(Nil, e))
         ELSE CallDoRequest(p, "responded", "search", FALSE)

\* the list SearchProducts returns for a parsed result list
RankedResults(results, prefs) ==
    IF prefs # Nil
    THEN sortProducts(filterProducts(results, Deref(prefs)), Deref(prefs))
    ELSE results

\* io.ReadAll, json.Unmarshal, then filterProducts and sortProducts when
\* preferences are given
SearchResult(body, prefs) ==
    IF body.shape = "unreadable"
    THEN SearchRet(Nil, NewAPIError(StatusOK, "failed to read search response"))
    ELSE IF body.shape = "notjson"
    THEN SearchRet(Nil, NewAPIError(StatusOK, "failed to parse search results"))
    ELSE SearchRet(RankedResults(body.results, prefs), NoErr)

SearchProductsResponded(p) ==
    /\ At(p, "SearchProducts", "responded")
    /\ LET e == ResponseError(ret[p], {StatusOK}, "search request failed",
                              "search failed") IN
         IF e # NoErr THEN ReturnOp(p, SearchRet(Nil, e))
         ELSE \E body \in SearchBodies :
                /\ Log(p, [e |-> "body", body |-> body])
                /\ Return(p, SearchResult(body, Top(p).args.prefs))
                /\ UNCHANGED <<ClientVars, server, jar>>

\* ------------------------------------------------------------------ GetCart
CartItem(code, quantity) == [ProductCode |-> code, Quantity |-> quantity]
Carts == {<<>>, <<CartItem("101_ST", 2)>>,
          <<CartItem("22_KG", 1), CartItem("101_ST", 1)>>}

\* a JSON value as FlexiblePrice.UnmarshalJSON stores it: a number is a
\* float64, a string a string, an object a map (here: whether it has a
\* "value" field and what that holds); null and an absent field leave nil
JNumber(n) == [t |-> "number", num |-> n]
JString(s) == [t |-> "string", str |-> s]
JObject(value) == [t |-> "object", value |-> value]
JNull == [t |-> "null"]
JMissing == [t |-> "missing"]
JBool == [t |-> "bool"]

RECURSIVE parsePrice(_)
parsePrice(v) ==
    CASE v.t = "number" -> v.num
      [] v.t = "string" ->
             IF v.str = "" THEN Zero
             ELSE IF ~ParseFloat(v.str).ok THEN Zero
             ELSE ParseFloat(v.str).val
      [] v.t = "object" ->
             IF v.value # Nil THEN parsePrice(Deref(v.value)) ELSE Zero
      [] OTHER -> Zero

\* a + b on float64 values
AddFloat(a, b) ==
    CASE a.kind = "nan" \/ b.kind = "nan" -> NaN
      [] a.kind = "inf" /\ b.kind = "inf" ->
             IF a.num = b.num THEN a ELSE NaN
      [] a.kind = "inf" -> a
      [] b.kind = "inf" -> b
      [] OTHER -> AddNum(a, b)

\* the values a price field of the cart response can hold
PriceValues ==
    {JNumber(Num(100, 1)), JString("99.50"), JString(""), JString("abc"),
     JString("12,50"), JString("NaN"), JString("Inf"), JString("1e999"),
     JObject(Ptr(JNumber(Num(5, 1)))), JObject(Ptr(JString("7.5"))),
     JObject(Ptr(JString("x"))), JObject(Nil), JNull, JMissing, JBool}

\* the four price-bearing fields of a cart response; price is the price of
\* each of its products
CartPrices(total, delivery, picking, each) ==
    [price |-> each, totalPrice |-> total, deliveryFee |-> delivery,
     pickingFee |-> picking]
PlainPrices == CartPrices(JNumber(Num(100, 1)), JNumber(Num(49, 1)),
                          JNumber(Num(59, 1)), JNumber(Num(25, 1)))
VariedPrices ==
    {CartPrices(v, JNumber(Num(49, 1)), JString("59"), v) : v \in PriceValues}
    \cup {CartPrices(JObject(Ptr(JNumber(Num(5, 1)))), v, v, JNumber(Num(25, 1))) :
              v \in PriceValues}

CartBodies ==
    {[shape |-> "unreadable", products |-> <<>>, prices |-> PlainPrices],
     [shape |-> "notjson", products |-> <<>>, prices |-> PlainPrices]}
    \cup [shape : {"json"}, products : Carts, prices : {PlainPrices}]
    \cup [shape : {"json"}, products : {<<CartItem("101_ST", 2)>>},
          prices : VariedPrices]

\* the CartSummary built from a decoded cart response
CartSummary(body) ==
    LET totalPrice == parsePrice(body.prices.totalPrice)
        deliveryFee == parsePrice(body.prices.deliveryFee)
        pickingFee == parsePrice(body.prices.pickingFee)
    IN [Items |-> [i \in 1..Len(body.products) |->
                      [ProductCode |-> body.products[i].ProductCode,
                       Quantity |-> body.products[i].Quantity,
                       Price |-> parsePrice(body.prices.price)]],
        TotalPrice |-> totalPrice,
        DeliveryFee |-> deliveryFee,
        PickingFee |-> pickingFee,
        FinalTotal |-> AddFloat(AddFloat(totalPrice, deliveryFee), pickingFee)]

GetCartFrame == OpFrame("GetCart", <<>>)
StartGetCart(p) == Start(p, GetCartFrame, "live")
CartRet(val, e) == OpRet("GetCart", val, e)

\* the GET through DoRequest(..., false)
GetCartBegin(p) ==
    /\ At(p, "GetCart", "begin")
    /\ CallDoRequest(p, "responded", "cart", FALSE)

\* io.ReadAll, json.Unmarshal, then the summary built from the products
CartResult(body) ==
    IF body.shape = "unreadable"
    THEN CartRet(Nil, NewAPIError(StatusOK, "failed to read cart response"))
    ELSE IF body.shape = "notjson"
    THEN CartRet(Nil, NewAPIError(StatusOK, "failed to parse cart response"))
    ELSE CartRet(Ptr(CartSummary(body)), NoErr)

\* the response of the GET, its body one of bodies
GetCartRespond(p, bodies) ==
    /\ At(p, "GetCart", "responded")
    /\ LET e == ResponseError(ret[p], {StatusOK}, "get cart request failed",
                              "get cart failed") IN
         IF e # NoErr THEN ReturnOp(p, CartRet(Nil, e))
         ELSE \E body \in bodies :
                /\ Log(p, [e |-> "body", body |-> body])
                /\ Return(p, CartResult(body))
                /\ UNCHANGED <<ClientVars, server, jar>>

GetCartResponded(p) == GetCartRespond(p, CartBodies)

\* return c.GetCart(ctx): GetCart takes the place of the returning operation
ReturnGetCart(p) == /\ Goto(p, GetCartFrame)
                    /\ UNCHANGED <<ret, hist, ClientVars, server, jar>>

\* ---------------------------------------------------------------- AddToCart
ProductCodes == {"", "101_ST", "22_KG", "101", "101_st"}
Quantities == {0 - 1, 0, MinQuantity, MaxQuantity, MaxQuantity + 1}

CartArgs(code, quantity) == [quantity |-> quantity, productCode |-> code]

StartAddToCart(p) ==
    /\ Idle(p)
    /\ \E code \in ProductCodes, quantity \in Quantities :
           Start(p, OpFrame("AddToCart", CartArgs(code, quantity)), "live")

ValidateAddToCart(code, quantity) ==
    IF ValidateProductCode(code) # NoErr THEN ValidateProductCode(code)
    ELSE ValidateQuantity(quantity)

\* the input checks, then the POST through DoRequest(..., true)
AddToCartBegin(p) ==
    /\ At(p, "AddToCart", "begin")
    /\ LET a == Top(p).args
           e == ValidateAddToCart(a.productCode, a.quantity) IN
         IF e # NoErr THEN ReturnOp(p, OpRet("AddToCart", Nil, e))
         ELSE CallDoRequest(p, "posted", "addProducts", TRUE)

\* how AddToCart maps the outcome of its POST
AddToCartError(r, productCode) ==
    IF r.err # NoErr THEN NewAPIError(0, "add to cart request failed")
    ELSE IF r.resp = StatusNotFound
    THEN NewNotFoundError("product", productCode)
    ELSE IF r.resp # StatusOK /\ r.resp # StatusCreated
    THEN NewAPIError(r.resp, "add to cart failed")
    ELSE NoErr

AddToCartPosted(p) ==
    /\ At(p, "AddToCart", "posted")
    /\ LET e == AddToCartError(ret[p], Top(p).args.productCode) IN
         IF e # NoErr THEN ReturnOp(p, OpRet("AddToCart", Nil, e))
         ELSE ReturnGetCart(p)

\* ----------------------------------------------------------- RemoveFromCart
StartRemoveFromCart(p) ==
    /\ Idle(p)
    /\ \E code \in ProductCodes, quantity \in Quantities :
           Start(p, OpFrame("RemoveFromCart", CartArgs(code, quantity)), "live")

\* the POST of the new quantity through DoRequest(..., true)
PostNewQty(p, newQty) ==
    /\ Call(p, [Top(p) EXCEPT !.pc = "posted", !.local = newQty],
            DoRequestFrame("addProducts", TRUE, "ok"))
    /\ Log(p, [e |-> "newQty", qty |-> newQty,
               productCode |-> Top(p).args.productCode])
    /\ UNCHANGED <<ret, ClientVars, server, jar>>

\* quantity <= 0 removes the product; otherwise the cart is read first
RemoveFromCartBegin(p) ==
    /\ At(p, "RemoveFromCart", "begin")
    /\ IF Top(p).args.quantity <= 0
       THEN PostNewQty(p, 0)
       ELSE /\ Call(p, [Top(p) EXCEPT !.pc = "read"], GetCartFrame)
            /\ UNCHANGED <<ret, hist, ClientVars, server, jar>>

\* the index of the first item of the cart with the product code, 0 if none
FindItem(items, code) ==
    IF \E i \in 1..Len(items) : items[i].ProductCode = code
    THEN CHOOSE i \in 1..Len(items) :
             /\ items[i].ProductCode = code
             /\ \A j \in 1..(i - 1) : items[j].ProductCode # code
    ELSE 0

Max(a, b) == IF a > b THEN a ELSE b

NewQty_SetToQuantity(currentQty, quantity) == Max(quantity, 0)

NewQty_NoFloor(currentQty, quantity) == currentQty - quantity

\* newQty = max(currentQty-quantity, 0)
NewQty(currentQty, quantity) == Max(currentQty - quantity, 0)

\* GetCart returned: its error, the cart as it is when the product is not in
\* it, or the POST of max(currentQty - quantity, 0)
RemoveFromCartRead(p) ==
    /\ At(p, "RemoveFromCart", "read")
    /\ LET a == Top(p).args
           currentCart == IF ret[p].err = NoErr THEN Deref(ret[p].val)
                          ELSE [Items |-> <<>>]
           found == FindItem(currentCart.Items, a.productCode) IN
         IF ret[p].err # NoErr
         THEN ReturnOp(p, OpRet("RemoveFromCart", Nil, ret[p].err))
         ELSE IF found = 0
         THEN ReturnOp(p, OpRet("RemoveFromCart", ret[p].val, NoErr))
         ELSE PostNewQty(p, NewQty(currentCart.Items[found].Quantity,
                                   a.quantity))

RemoveFromCartPosted(p) ==
    /\ At(p, "RemoveFromCart", "posted")
    /\ LET e == ResponseError(ret[p], {StatusOK, StatusCreated},
                              "remove from cart request failed",
                              "remove from cart failed") IN
         IF e # NoErr THEN ReturnOp(p, OpRet("RemoveFromCart", Nil, e))
         ELSE ReturnGetCart(p)

\* ---------------------------------------------------------------- ClearCart
StartClearCart(p) == Start(p, OpFrame("ClearCart", <<>>), "live")

ClearCartBegin(p) ==
    /\ At(p, "ClearCart", "begin")
    /\ CallDoRequest(p, "posted", "clearCart", TRUE)

\* a mutation that accepts 200 and 204 returns the mapped error or nil
MutationDone(p, f, requestMsg, statusMsg) ==
    /\ At(p, f, "posted")
    /\ ReturnOp(p, OpRet(f, Nil,
                         ResponseError(ret[p], {StatusOK, StatusNoContent},
                                       requestMsg, statusMsg)))

ClearCartPosted(p) ==
    MutationDone(p, "ClearCart", "clear cart request failed",
                 "clear cart failed")

\* ------------------------------------------------------ CheckDeliverability
PostalCodes == {"", "12345", "123 45", "1234", "123\t45"}

\* what the deliverability endpoint answers with status 200
DeliverabilityBodies ==
    {[shape |-> "notjson", deliverable |-> FALSE]}
    \cup [shape : {"json"}, deliverable : BOOLEAN]

CheckFrame(postalCode) ==
    OpFrame("CheckDeliverability", [postalCode |-> postalCode])

StartCheckDeliverability(p) ==
    /\ Idle(p)
    /\ \E postalCode \in PostalCodes : Start(p, CheckFrame(postalCode), "live")

CheckRet(val, e) == OpRet("CheckDeliverability", val, e)

\* the input check, then the GET through DoRequest(..., false)
CheckDeliverabilityBegin(p) ==
    /\ At(p, "CheckDeliverability", "begin")
    /\ LET e == ValidatePostalCode(Top(p).args.postalCode) IN
         IF e # NoErr THEN ReturnOp(p, CheckRet(FALSE, e))
         ELSE CallDoRequest(p, "responded", "deliverability", FALSE)

\* a transport error is an APIError; a status other than 200 is the answer
\* "not deliverable" without an error; otherwise the decoded flag
CheckDeliverabilityResponded(p) ==
    /\ At(p, "CheckDeliverability", "responded")
    /\ IF ret[p].err # NoErr
       THEN ReturnOp(p, CheckRet(FALSE,
                NewAPIError(0, "check deliverability request failed")))
       ELSE IF ret[p].resp # StatusOK
       THEN ReturnOp(p, CheckRet(FALSE, NoErr))
       ELSE \E body \in DeliverabilityBodies :
              /\ Log(p, [e |-> "body", body |-> body])
              /\ Return(p, IF body.shape = "notjson"
                           THEN CheckRet(FALSE, NewAPIError(StatusOK,
                                    "failed to parse deliverability response"))
                           ELSE CheckRet(body.deliverable, NoErr))
              /\ UNCHANGED <<ClientVars, server, jar>>

\* ---------------------------------------------------------- SetDeliveryMode
StartSetDeliveryMode(p) == Start(p, OpFrame("SetDeliveryMode", <<>>), "live")

SetDeliveryModeBegin(p) ==
    /\ At(p, "SetDeliveryMode", "begin")
    /\ CallDoRequest(p, "posted", "deliveryMode", TRUE)

SetDeliveryModePosted(p) ==
    MutationDone(p, "SetDeliveryMode", "set delivery mode request failed",
                 "set delivery mode failed")

\* ------------------------------------------------------- SetDeliveryAddress
ValidAddress ==
    [FirstName |-> "Ann", LastName |-> "Lind", Address |-> "Storgatan 1",
     City |-> "Lund", DoorCode |-> "", MessageToDriver |-> "",
     PostalCode |-> "12345"]
\* the valid address, and one address failing each check of the validation
Addresses ==
    {ValidAddress,
     [ValidAddress EXCEPT !.FirstName = ""],
     [ValidAddress EXCEPT !.FirstName = Repeat("x", maxNameLength + 1)],
     [ValidAddress EXCEPT !.LastName = ""],
     [ValidAddress EXCEPT !.LastName = Repeat("x", maxNameLength + 1)],
     [ValidAddress EXCEPT !.Address = ""],
     [ValidAddress EXCEPT !.Address = Repeat("x", maxAddressLength + 1)],
     [ValidAddress EXCEPT !.City = ""],
     [ValidAddress EXCEPT !.City = Repeat("x", maxCityLength + 1)],
     [ValidAddress EXCEPT !.DoorCode = Repeat("x", maxDoorCodeLength + 1)],
     [ValidAddress EXCEPT !.MessageToDriver =
                              Repeat("x", maxMessageLength + 1)],
     [ValidAddress EXCEPT !.PostalCode = "1234"]}

AddressFrame(address) == OpFrame("SetDeliveryAddress", [address |-> address])

StartSetDeliveryAddress(p) ==
    /\ Idle(p)
    /\ \E address \in Addresses : Start(p, AddressFrame(address), "live")

AddressRet(e) == OpRet("SetDeliveryAddress", Nil, e)

\* the input check, then the address POST through DoRequest(..., true)
SetDeliveryAddressBegin(p) ==
    /\ At(p, "SetDeliveryAddress", "begin")
    /\ LET e == ValidateDeliveryAddress(Top(p).args.address) IN
         IF e # NoErr THEN ReturnOp(p, AddressRet(e))
         ELSE CallDoRequest(p, "address", "deliveryAddress", TRUE)

\* the address POST returned: its error, or the postal-code POST
SetDeliveryAddressPosted(p) ==
    /\ At(p, "SetDeliveryAddress", "address")
    /\ LET e == ResponseError(ret[p], {StatusOK, StatusNoContent},
                              "set delivery address request failed",
                              "set delivery address failed") IN
         IF e # NoErr THEN ReturnOp(p, AddressRet(e))
         ELSE CallDoRequest(p, "posted", "postalCode", TRUE)

SetDeliveryAddressPostal(p) ==
    MutationDone(p, "SetDeliveryAddress", "set postal code request failed",
                 "set postal code failed")

\* ---------------------------------------------------- GetAvailableTimeSlots
\* the opaque routing reference the listing attaches to a slot
TmsRef(earliest, latest, route, key) ==
    [EarliestDateTime |-> earliest, LatestDateTime |-> latest,
     RouteID |-> route, ResourceKey |-> key, ScheduleKey |-> "sched",
     PrecedingStopId |-> 3, StopNumber |-> 4, Profitability |-> Num(1, 2)]

\* the slots of the listing response as the server sends them
ServerSlots ==
    {[Code |-> "slot1", TmsDeliveryWindowReference |-> TmsRef(10, 20, 7, "res")],
     [Code |-> "slot 2", TmsDeliveryWindowReference |-> TmsRef(30, 40, 8, "")],
     [Code |-> "a/b+c", TmsDeliveryWindowReference |-> TmsRef(0, 0, 0, "res")]}

\* the TimeSlot built from one slot of the listing: its code and the fields
\* of its routing reference
ToTimeSlot(s) ==
    [EarliestDateTime |-> s.TmsDeliveryWindowReference.EarliestDateTime,
     LatestDateTime |-> s.TmsDeliveryWindowReference.LatestDateTime,
     RouteID |-> s.TmsDeliveryWindowReference.RouteID,
     ResourceKey |-> s.TmsDeliveryWindowReference.ResourceKey,
     ScheduleKey |-> s.TmsDeliveryWindowReference.ScheduleKey,
     PrecedingStopId |-> s.TmsDeliveryWindowReference.PrecedingStopId,
     StopNumber |-> s.TmsDeliveryWindowReference.StopNumber,
     Profitability |-> s.TmsDeliveryWindowReference.Profitability,
     SlotID |-> s.Code]

\* the slots a caller can hold: those GetAvailableTimeSlots produces
TimeSlots == {ToTimeSlot(s) : s \in ServerSlots}
SlotBodies ==
    {[slots |-> <<>>, shape |-> "notjson"]}
    \cup [slots : {<<>>} \cup {<<s>> : s \in ServerSlots}, shape : {"json"}]

SlotsFrame(postalCode) ==
    OpFrame("GetAvailableTimeSlots", [postalCode |-> postalCode])

StartGetAvailableTimeSlots(p) ==
    /\ Idle(p)
    /\ \E postalCode \in PostalCodes : Start(p, SlotsFrame(postalCode), "live")

SlotsRet(val, e) == OpRet("GetAvailableTimeSlots", val, e)

\* the input check, then the GET through DoRequest(..., false)
GetAvailableTimeSlotsBegin(p) ==
    /\ At(p, "GetAvailableTimeSlots", "begin")
    /\ LET e == ValidatePostalCode(Top(p).args.postalCode) IN
         IF e # NoErr THEN ReturnOp(p, SlotsRet(Nil, e))
         ELSE CallDoRequest(p, "responded", "slots", FALSE)

GetAvailableTimeSlotsResponded(p) ==
    /\ At(p, "GetAvailableTimeSlots", "responded")
    /\ LET e == ResponseError(ret[p], {StatusOK},
                              "get time slots request failed",
                              "get time slots failed") IN
         IF e # NoErr THEN ReturnOp(p, SlotsRet(Nil, e))
         ELSE \E body \in SlotBodies :
                /\ Log(p, [e |-> "body", body |-> body])
                /\ Return(p, IF body.shape = "notjson"
                             THEN SlotsRet(Nil, NewAPIError(StatusOK,
                                      "failed to parse time slots response"))
                             ELSE SlotsRet([i \in 1..Len(body.slots) |->
                                               ToTimeSlot(body.slots[i])],
                                           NoErr))
                /\ UNCHANGED <<ClientVars, server, jar>>

\* ----------------------------------------------------------- SelectTimeSlot
SelectFrame(slot) == OpFrame("SelectTimeSlot", [slot |-> slot])

StartSelectTimeSlot(p) ==
    /\ Idle(p)
    /\ \E slot \in TimeSlots : Start(p, SelectFrame(slot), "live")

\* url.QueryEscape of one byte: letters, digits and - _ . ~ stay, a space
\* becomes +, any other byte its %XX code
EscapeChar(c) ==
    CASE c = " " -> "+"
      [] c = "+" -> "%2B"
      [] c = "/" -> "%2F"
      [] c = ":" -> "%3A"
      [] c = "%" -> "%25"
      [] OTHER -> c

RECURSIVE QueryEscape(_)
QueryEscape(s) ==
    IF s = "" THEN "" ELSE EscapeChar(Head(s)) \o QueryEscape(Tail(s))

\* the JSON body of the selection request
reqData(slot) ==
    [EarliestDateTime |-> slot.EarliestDateTime,
     LatestDateTime |-> slot.LatestDateTime,
     RouteID |-> slot.RouteID,
     ResourceKey |-> slot.ResourceKey,
     ScheduleKey |-> slot.ScheduleKey,
     PrecedingStopId |-> slot.PrecedingStopId,
     StopNumber |-> slot.StopNumber,
     Profitability |-> slot.Profitability]

\* the request is built from the slot, then posted through
\* DoRequest(..., true)
SelectTimeSlotBegin(p) ==
    /\ At(p, "SelectTimeSlot", "begin")
    /\ Call(p, [Top(p) EXCEPT !.pc = "posted"],
            DoRequestFrame("slotInCart", TRUE, "ok"))
    /\ Log(p, [e |-> "selection", body |-> reqData(Top(p).args.slot),
               path |-> QueryEscape(Top(p).args.slot.SlotID)])
    /\ UNCHANGED <<ret, ClientVars, server, jar>>

SelectTimeSlotPosted(p) ==
    MutationDone(p, "SelectTimeSlot", "select time slot request failed",
                 "select time slot failed")

\* ------------------------------------------------------------ SetupDelivery
StartSetupDelivery(p) ==
    /\ Idle(p)
    /\ \E address \in Addresses, slot \in TimeSlots :
           Start(p, OpFrame("SetupDelivery",
                            [address |-> address, slot |-> slot]), "live")

SetupRet(val, e) == OpRet("SetupDelivery", val, e)

\* the operation calls another operation of the client and continues at l
CallOp(p, l, frame) ==
    /\ Call(p, [Top(p) EXCEPT !.pc = l], frame)
    /\ UNCHANGED <<ret, hist, ClientVars, server, jar>>

\* c.CheckDeliverability(ctx, address.PostalCode)
SetupDeliveryBegin(p) ==
    /\ At(p, "SetupDelivery", "begin")
    /\ CallOp(p, "checked", CheckFrame(Top(p).args.address.PostalCode))

\* its error; a ValidationError when not deliverable; else SetDeliveryMode
SetupDeliveryChecked(p) ==
    /\ At(p, "SetupDelivery", "checked")
    /\ IF ret[p].err # NoErr THEN ReturnOp(p, SetupRet(Nil, ret[p].err))
       ELSE IF ~ret[p].val
       THEN ReturnOp(p, SetupRet(Nil, NewValidationError("postal_code",
                "delivery not available for postal code")))
       ELSE CallOp(p, "mode", OpFrame("SetDeliveryMode", <<>>))

\* SetDeliveryMode returned: its error, or SetDeliveryAddress
SetupDeliveryMode(p) ==
    /\ At(p, "SetupDelivery", "mode")
    /\ IF ret[p].err # NoErr THEN ReturnOp(p, SetupRet(Nil, ret[p].err))
       ELSE CallOp(p, "address", AddressFrame(Top(p).args.address))

\* SetDeliveryAddress returned: its error, or SelectTimeSlot
SetupDeliveryAddress(p) ==
    /\ At(p, "SetupDelivery", "address")
    /\ IF ret[p].err # NoErr THEN ReturnOp(p, SetupRet(Nil, ret[p].err))
       ELSE CallOp(p, "slot", SelectFrame(Top(p).args.slot))

\* SelectTimeSlot returned: its error, or the delivery information
SetupDeliverySlot(p) ==
    /\ At(p, "SetupDelivery", "slot")
    /\ IF ret[p].err # NoErr THEN ReturnOp(p, SetupRet(Nil, ret[p].err))
       ELSE ReturnOp(p, SetupRet(Ptr([Address |-> Top(p).args.address,
                                      TimeSlot |-> Top(p).args.slot]),
                                 NoErr))

\* ------------------------------------------------------ ValidateDeliveryDate
maxDeliveryDaysAhead == 14
HoursPerDay == 24

IsLeap(year) == year % 4 = 0 /\ (year % 100 # 0 \/ year % 400 = 0)
DaysIn(year, month) ==
    CASE month \in {4, 6, 9, 11} -> 30
      [] month = 2 -> IF IsLeap(year) THEN 29 ELSE 28
      [] OTHER -> 31

\* the number of days from 1970-01-01 to the given calendar date
DaysFromCivil(year, month, day) ==
    LET y == IF month <= 2 THEN year - 1 ELSE year
        era == y \div 400
        yoe == y - era * 400
        doy == (153 * (IF month > 2 THEN month - 3 ELSE month + 9) + 2) \div 5
                   + day - 1
        doe == yoe * 365 + yoe \div 4 - yoe \div 100 + doy
    IN era * 146097 + doe - 719468

\* time.Parse("2006-01-02", dateStr): four digits, two digits, two digits,
\* a month and a day that exist; the value is midnight UTC of that date, in
\* hours since 1970-01-01 00:00 UTC
ParseDate(dateStr) ==
    LET shaped == /\ Len(dateStr) = 10
                  /\ IsDigits(SubSeq(dateStr, 1, 4))
                  /\ SubSeq(dateStr, 5, 5) = "-"
                  /\ IsDigits(SubSeq(dateStr, 6, 7))
                  /\ SubSeq(dateStr, 8, 8) = "-"
                  /\ IsDigits(SubSeq(dateStr, 9, 10))
        year == ParseDigits(SubSeq(dateStr, 1, 4))
        month == ParseDigits(SubSeq(dateStr, 6, 7))
        day == ParseDigits(SubSeq(dateStr, 9, 10))
    IN  IF shaped /\ month \in 1..12 /\ day \in 1..DaysIn(year, month)
        THEN [ok |-> TRUE,
              val |-> HoursPerDay * DaysFromCivil(year, month, day)]
        ELSE [ok |-> FALSE, val |-> 0]

\* the calendar day, counted from 1970-01-01, that a clock at the given
\* offset from UTC shows at the instant now
LocalDay(now, offset) == (now + offset) \div HoursPerDay

\* time.Date(now.Year(), now.Month(), now.Day(), 0, 0, 0, 0, now.Location()):
\* the instant of local midnight
LocalMidnight(now, offset) == HoursPerDay * LocalDay(now, offset) - offset

\* instants are hours since 1970-01-01 00:00 UTC; offset is the caller's
\* zone in hours east of UTC
ValidateDeliveryDate(dateStr, now, offset) ==
    LET parsed == ParseDate(dateStr)
        deliveryDate == parsed.val
        today == LocalMidnight(now, offset)
        maxDate == today + HoursPerDay * maxDeliveryDaysAhead
    IN  IF dateStr = ""
        THEN NewValidationError("delivery_date", "cannot be empty")
        ELSE IF ~parsed.ok
        THEN NewValidationError("delivery_date",
                                "invalid format (expected: YYYY-MM-DD)")
        ELSE IF deliveryDate < today
        THEN NewValidationError("delivery_date", "cannot be in the past")
        ELSE IF deliveryDate > maxDate
        THEN NewValidationError("delivery_date", "max 14 days ahead")
        ELSE NoErr

DateStrings == {"", "2024-03-09", "2024-03-10", "2024-03-11", "2024-03-24",
                "2024-03-25", "2024-03-26", "2024-02-30", "2024-3-10",
                "10/03/2024"}
\* the clock readings: hours of 2024-03-10 UTC
ClockHours == {0, 3, 12, 22}
Nows == {HoursPerDay * DaysFromCivil(2024, 3, 10) + h : h \in ClockHours}
\* the caller's zone, hours east of UTC
Offsets == {0 - 5, 0, 1, 2}

StartValidateDeliveryDate(p) ==
    /\ Idle(p)
    /\ \E dateStr \in DateStrings :
           Start(p, OpFrame("ValidateDeliveryDate", [dateStr |-> dateStr]), "live")

\* time.Now() and its location are read once, then the checks run
ValidateDeliveryDateBegin(p) ==
    /\ At(p, "ValidateDeliveryDate", "begin")
    /\ \E now \in Nows, offset \in Offsets :
           /\ Log(p, [e |-> "clock", now |-> now, offset |-> offset])
           /\ Return(p, OpRet("ValidateDeliveryDate", Nil,
                              ValidateDeliveryDate(Top(p).args.dateStr, now, offset)))
           /\ UNCHANGED <<ClientVars, server, jar>>

\* ----------------------------------------------- the client's operations
\* a client built without credentials (NewClient(baseURL, "", "")), whose one
\* caller runs MaxOps domain operations; DoRequest never re-logs in for it
InitOps == /\ csrfToken = NoToken
           /\ username = ""
           /\ password = ""
           /\ authAttempts = 0
           /\ mu = 0
           /\ stack = [p \in Procs |-> <<>>]
           /\ ret = [p \in Procs |-> NoRet]
           /\ ctx = [p \in Procs |-> "nil"]
           /\ hist = [p \in Procs |-> <<>>]
           /\ lastFetched = NoToken
           /\ budget = [p \in Procs |-> IF p = 1 THEN MaxOps ELSE 0]
           /\ server = Shop(0)
           /\ jar = {}

NextOps == \E p \in Procs :
             \/ StartSearchProducts(p)
             \/ StartValidateDeliveryDate(p)
             \/ ValidateDeliveryDateBegin(p)
             \/ SearchProductsBegin(p)
             \/ SearchProductsResponded(p)
             \/ StartGetCart(p)
             \/ GetCartBegin(p)
             \/ GetCartResponded(p)
             \/ StartAddToCart(p)
             \/ AddToCartBegin(p)
             \/ AddToCartPosted(p)
             \/ StartRemoveFromCart(p)
             \/ RemoveFromCartBegin(p)
             \/ RemoveFromCartRead(p)
             \/ RemoveFromCartPosted(p)
             \/ StartClearCart(p)
             \/ ClearCartBegin(p)
             \/ ClearCartPosted(p)
             \/ StartCheckDeliverability(p)
             \/ CheckDeliverabilityBegin(p)
             \/ CheckDeliverabilityResponded(p)
             \/ StartSetDeliveryMode(p)
             \/ SetDeliveryModeBegin(p)
             \/ SetDeliveryModePosted(p)
             \/ StartSetDeliveryAddress(p)
             \/ SetDeliveryAddressBegin(p)
             \/ SetDeliveryAddressPosted(p)
             \/ SetDeliveryAddressPostal(p)
             \/ StartGetAvailableTimeSlots(p)
             \/ GetAvailableTimeSlotsBegin(p)
             \/ GetAvailableTimeSlotsResponded(p)
             \/ StartSelectTimeSlot(p)
             \/ SelectTimeSlotBegin(p)
             \/ SelectTimeSlotPosted(p)
             \/ StartSetupDelivery(p)
             \/ SetupDeliveryBegin(p)
             \/ SetupDeliveryChecked(p)
             \/ SetupDeliveryMode(p)
             \/ SetupDeliveryAddress(p)
             \/ SetupDeliverySlot(p)
             \/ GetCSRFTokenRead(p)
             \/ GetCSRFTokenLock(p)
             \/ GetCSRFTokenLocked(p)
             \/ FetchCSRFTokenLock(p)
             \/ FetchCSRFTokenLocked(p)
             \/ DoRequestBegin(p)
             \/ DoRequestToken(p)
             \/ DoRequestDo(p)
             \/ DoRequestRefreshed(p)
             \/ DoRequestToken2(p)
             \/ DoRequestRetry(p)
             \/ DoRequestLoad(p)
             \/ DoRequestCreds(p)

SpecOps == InitOps /\ [][NextOps]_vars

\* ------------------------------------------- two callers and the shop's cart
\* Two callers remove from a cart whose one product line the shop holds: a
\* GET answers with the line as it is when the shop processes the request,
\* a POST of a quantity replaces the line when the shop processes it.
CartCalls == 1
ShopProduct == "101_ST"
ShopQuantities == {1, 4, 5}
RemoveQuantities == {1, 2}

InitCart == /\ csrfToken = NoToken
            /\ username = ""
            /\ password = ""
            /\ authAttempts = 0
            /\ mu = 0
            /\ stack = [p \in Procs |-> <<>>]
            /\ ret = [p \in Procs |-> NoRet]
            /\ ctx = [p \in Procs |-> "nil"]
            /\ hist = [p \in Procs |-> <<>>]
            /\ lastFetched = NoToken
            /\ budget = [p \in Procs |-> CartCalls]
            /\ server \in {Shop(q) : q \in ShopQuantities}
            /\ jar = {}

StartRemove(p) ==
    /\ Idle(p)
    /\ \E quantity \in RemoveQuantities :
           Start(p, OpFrame("RemoveFromCart", CartArgs(ShopProduct, quantity)),
                 "live")

\* the cart response of a shop holding q of the product
ShopBody(q) ==
    [shape |-> "json",
     products |-> IF q > 0 THEN <<CartItem(ShopProduct, q)>> ELSE <<>>,
     prices |-> PlainPrices]

\* the shop's answers: 200, a server error that leaves the cart alone, or
\* a request that never arrives
ShopOutcomes(p) == DoOutcomes(p) \cap {StatusOK, StatusServerError, NetErr}

\* the quantity in the body of the POST that caller p's DoRequest carries
PostedQty(p) == stack[p][2].local

\* the shop processes the request of caller p's DoRequest
Process(p, o) ==
    IF o # StatusOK THEN server
    ELSE IF Top(p).req = "cart"
    THEN [server EXCEPT !.sent[p] = server.cart]
    ELSE [server EXCEPT !.cart = PostedQty(p),
                        !.posts = Append(@, [by |-> p, qty |-> PostedQty(p)])]

\* resp, err := c.httpClient.Do(req), answered by the shop
ShopDo(p) ==
    /\ At(p, "DoRequest", "do")
    /\ Top(p).req \in {"cart", "addProducts"}
    /\ \E o \in ShopOutcomes(p) :
         /\ Log(p, DispatchEvent(Top(p), o))
         /\ server' = Process(p, o)
         /\ IF o = NetErr
            THEN Return(p, DoRet(0, Wrapped("request failed")))
            ELSE Return(p, DoRet(o, NoErr))
    /\ UNCHANGED <<csrfToken, username, password, authAttempts, mu, ctx,
                   lastFetched, budget, jar>>

\* GetCart reads the body the shop sent
GetCartServed(p) == GetCartRespond(p, {ShopBody(server.sent[p])})

NextCart == \E p \in Procs :
              \/ StartRemove(p)
              \/ RemoveFromCartBegin(p)
              \/ RemoveFromCartRead(p)
              \/ RemoveFromCartPosted(p)
              \/ GetCartBegin(p)
              \/ GetCartServed(p)
              \/ GetCSRFTokenRead(p)
              \/ GetCSRFTokenLock(p)
              \/ GetCSRFTokenLocked(p)
              \/ DoRequestBegin(p)
              \/ DoRequestToken(p)
              \/ ShopDo(p)

SpecCart == InitCart /\ [][NextCart]_vars

\* ------------------------------------------- a guest client and its cookies
\* A client built without credentials: token calls, unprotected requests and
\* browser logins, answered by a shop whose responses may set its session
\* cookie, and IsAuthenticated asked in between.
MaxGuestCalls == 3

InitGuest == /\ csrfToken = NoToken
             /\ username = ""
             /\ password = ""
             /\ authAttempts = 0
             /\ mu = 0
             /\ stack = [p \in Procs |-> <<>>]
             /\ ret = [p \in Procs |-> NoRet]
             /\ ctx = [p \in Procs |-> "nil"]
             /\ hist = [p \in Procs |-> <<>>]
             /\ lastFetched = NoToken
             /\ budget = [p \in Procs |-> IF p = 1 THEN MaxGuestCalls ELSE 0]
             /\ server = Shop(0)
             /\ jar = {}

\* an unauthenticated request of a guest: the search or the cart GET
StartGuestRequest(p) ==
    /\ Idle(p)
    /\ \E req \in {"search", "cart"} :
           Start(p, DoRequestFrame(req, FALSE, "ok"), "live")

StartIsAuthenticated(p) ==
    Start(p, [fn |-> "IsAuthenticated", pc |-> "begin"], "nil")

\* cookies := c.GetCookies(); return len(cookies) > 0
IsAuthenticated(p) ==
    /\ At(p, "IsAuthenticated", "begin")
    /\ Return(p, OpRet("IsAuthenticated", jar # {}, NoErr))
    /\ UNCHANGED <<hist, ClientVars, server, jar>>

GetCSRFTokenLockedCookies(p) == GetCSRFTokenFetch(p, SessionCookies)
FetchCSRFTokenLockedCookies(p) == FetchCSRFTokenFetch(p, SessionCookies)
DoRequestDoCookies(p) == DoRequestDispatch(p, SessionCookies)

NextGuest == \E p \in Procs :
               \/ StartIsAuthenticated(p)
               \/ IsAuthenticated(p)
               \/ StartGuestRequest(p)
               \/ DoRequestBegin(p)
               \/ DoRequestDoCookies(p)
               \/ StartGetCSRFToken(p)
               \/ GetCSRFTokenRead(p)
               \/ GetCSRFTokenLock(p)
               \/ GetCSRFTokenLockedCookies(p)
               \/ StartLoginWithBrowser(p)
               \/ LoginWithBrowserBegin(p)
               \/ LoginWithBrowserLaunch(p)
               \/ LoginWithBrowserConnect(p)
               \/ LoginWithBrowserPage(p)
               \/ LoginWithBrowserAutomate(p)
               \/ LoginWithBrowserStore(p)
               \/ LoginWithBrowserReset(p)
               \/ LoginWithBrowserDone(p)
               \/ FetchCSRFTokenLock(p)
               \/ FetchCSRFTokenLockedCookies(p)

SpecGuest == InitGuest /\ [][NextGuest]_vars

\* --------------------------------------------------- SetupDelivery on its own
\* a guest client whose one caller sets up deliveries
NextSetup == \E p \in Procs :
               \/ StartSetupDelivery(p)
               \/ SetupDeliveryBegin(p)
               \/ SetupDeliveryChecked(p)
               \/ SetupDeliveryMode(p)
               \/ SetupDeliveryAddress(p)
               \/ SetupDeliverySlot(p)
               \/ CheckDeliverabilityBegin(p)
               \/ CheckDeliverabilityResponded(p)
               \/ SetDeliveryModeBegin(p)
               \/ SetDeliveryModePosted(p)
               \/ SetDeliveryAddressBegin(p)
               \/ SetDeliveryAddressPosted(p)
               \/ SetDeliveryAddressPostal(p)
               \/ SelectTimeSlotBegin(p)
               \/ SelectTimeSlotPosted(p)
               \/ GetCSRFTokenRead(p)
               \/ GetCSRFTokenLock(p)
               \/ GetCSRFTokenLocked(p)
               \/ FetchCSRFTokenLock(p)
               \/ FetchCSRFTokenLocked(p)
               \/ DoRequestBegin(p)
               \/ DoRequestToken(p)
               \/ DoRequestDo(p)
               \/ DoRequestRefreshed(p)
               \/ DoRequestToken2(p)
               \/ DoRequestRetry(p)
               \/ DoRequestLoad(p)
               \/ DoRequestCreds(p)

SpecSetup == InitOps /\ [][NextSetup]_vars

\* --------------------------------------------------- RemoveFromCart on its own
\* a guest client whose one caller removes from the cart
NextRemove == \E p \in Procs :
                \/ StartRemoveFromCart(p)
                \/ RemoveFromCartBegin(p)
                \/ RemoveFromCartRead(p)
                \/ RemoveFromCartPosted(p)
                \/ GetCartBegin(p)
                \/ GetCartResponded(p)
                \/ GetCSRFTokenRead(p)
                \/ GetCSRFTokenLock(p)
                \/ GetCSRFTokenLocked(p)
                \/ FetchCSRFTokenLock(p)
                \/ FetchCSRFTokenLocked(p)
                \/ DoRequestBegin(p)
                \/ DoRequestToken(p)
                \/ DoRequestDo(p)
                \/ DoRequestRefreshed(p)
                \/ DoRequestToken2(p)
                \/ DoRequestRetry(p)
                \/ DoRequestLoad(p)
                \/ DoRequestCreds(p)

SpecRemove == InitOps /\ [][NextRemove]_vars

\* ------------------------------------------------------------------ C16
\* caller p's top-level call of one of the operations in ops has returned
OpDone(p, ops) == Idle(p) /\ hist[p] # <<>> /\ hist[p][1].fn \in ops
NetworkEvents(p) == {i \in Idx(p) : IsNetwork(Ev(p, i))}

ValidatingOps ==
    {"SearchProducts", "AddToCart", "RemoveFromCart", "CheckDeliverability",
     "SetDeliveryAddress", "GetAvailableTimeSlots", "SetupDelivery"}

\* C16: whenever SearchProducts, AddToCart, RemoveFromCart,
\* CheckDeliverability, SetDeliveryAddress, GetAvailableTimeSlots or
\* SetupDelivery returns a ValidationError, no network request was
\* dispatched during that call.
C16_ValidationBeforeNetwork ==
    \A p \in Procs :
        (OpDone(p, ValidatingOps) /\ ret[p].err.type = "ValidationError") =>
            NetworkEvents(p) = {}


\* ------------------------------------------------------------------ C17
CodeTakingOps == {"AddToCart", "RemoveFromCart"}

\* C17: whenever AddToCart or RemoveFromCart was called with an empty or
\* malformed product code (one that is not digits_ST or digits_KG), the call
\* returns a ValidationError and no network request was dispatched during it.
C17_MalformedCodeRejected ==
    \A p \in Procs :
        (OpDone(p, CodeTakingOps)
            /\ ValidateProductCode(hist[p][1].args.productCode) # NoErr) =>
                /\ ret[p].err.type = "ValidationError"
                /\ NetworkEvents(p) = {}


\* ------------------------------------------------------------------ C18
DomainOps == {"SearchProducts", "GetCart", "AddToCart", "RemoveFromCart", "ClearCart", "CheckDeliverability", "SetDeliveryMode", "SetDeliveryAddress", "GetAvailableTimeSlots", "SelectTimeSlot"}

\* the server answered, and with a status outside 2xx
NonSuccess(status) == status # 0 /\ (status < 200 \/ status >= 300)

DispatchEvents(p) == {i \in Idx(p) : Is(Ev(p, i), "dispatch")}
LastDispatch(p) == Ev(p, CHOOSE i \in DispatchEvents(p) : \A j \in DispatchEvents(p) : j <= i)

\* the last response the returned call received from the server was a
\* non-success one
EndedOnNonSuccess(p) ==
    /\ OpDone(p, DomainOps)
    /\ DispatchEvents(p) # {}
    /\ NonSuccess(LastDispatch(p).status)

\* C18: whenever a domain operation has returned after the server answered its
\* last request with a non-success HTTP status, it returned an APIError or a
\* NotFoundError; it never returned a non-error result.
C18_NonSuccessIsError ==
    \A p \in Procs :
        EndedOnNonSuccess(p) => ret[p].err.type \in {"APIError", "NotFoundError"}


\* ------------------------------------------------------------------ C19
RecognizedSortModes == {"cheapest", "best_value", "highest_quality"}

\* the search of caller p has returned a list made from a parsed response
SearchReturnedList(p) ==
    /\ OpDone(p, {"SearchProducts"})
    /\ ret[p].err = NoErr
    /\ \E i \in Idx(p) : Is(Ev(p, i), "body")

\* the result list the server sent in that response
ServerResults(p) ==
    Ev(p, CHOOSE i \in Idx(p) : Is(Ev(p, i), "body")).body.results

\* the products of a list that pass both filters, in the order of the list
PassingProducts(results, prefs) ==
    LET Passes(x) == ~DroppedOnPrice(x, prefs) /\ ~DroppedOnLabels(x, prefs)
    IN SelectSeq(results, Passes)

\* C19: a search without preferences returns the server's result list
\* unchanged and in its order; a search with preferences whose sort mode is
\* unset or unrecognized returns exactly the products that pass the filters,
\* in their original relative order.
C19_RankingPassThrough ==
    \A p \in Procs :
        SearchReturnedList(p) =>
            LET prefs == hist[p][1].args.prefs IN
              /\ prefs = Nil => ret[p].val = ServerResults(p)
              /\ (prefs # Nil /\ Deref(prefs).SortBy \notin RecognizedSortModes) =>
                     ret[p].val = PassingProducts(ServerResults(p), Deref(prefs))

\* a search with an unrecognized sort mode returned two or more products, in
\* descending price order, after the filters dropped one
C19_Witness ==
    \E p \in Procs :
        /\ SearchReturnedList(p)
        /\ hist[p][1].args.prefs # Nil
        /\ Deref(hist[p][1].args.prefs).SortBy = "price"
        /\ Len(ret[p].val) >= 2
        /\ Len(ret[p].val) < Len(ServerResults(p))
        /\ Gt(parseComparePriceToFloat(ret[p].val[1].ComparePrice),
              parseComparePriceToFloat(ret[p].val[2].ComparePrice))


\* ------------------------------------------------------------------ C20
\* a <= b on float64 values
Le(a, b) == a.kind # "nan" /\ b.kind # "nan" /\ ~Gt(a, b)

\* the price the filter is described to compare: the parsed compare price, or
\* 0 when the string does not parse
PriceOrZero(priceStr) ==
    LET r == ParseFloat(ReplaceAll(TrimSuffix(priceStr, " kr"), ",", "."))
    IN IF r.ok THEN r.val ELSE Zero

Elements(seq) == {seq[i] : i \in 1..Len(seq)}

\* C20: in a search with preferences, a product of the server's list is in
\* the returned list iff it passes the label filter and, when
\* max_price_per_unit > 0, its parsed compare price (0 when the price string
\* does not parse) is <= the ceiling; with max_price_per_unit <= 0 no
\* product is dropped on price.
C20_PriceFilter ==
    \A p \in Procs :
        (SearchReturnedList(p) /\ hist[p][1].args.prefs # Nil) =>
            LET prefs == Deref(hist[p][1].args.prefs) IN
              \A x \in Elements(ServerResults(p)) :
                  x \in Elements(ret[p].val) <=>
                      /\ ~DroppedOnLabels(x, prefs)
                      /\ Gt(prefs.MaxPricePerUnit, Zero) =>
                             Le(PriceOrZero(x.ComparePrice), prefs.MaxPricePerUnit)


\* ------------------------------------------------------------------ C21
\* label contains word as a substring when the case of letters is ignored
ContainsFold(label, word) ==
    \E i \in 1..(Len(label) + 1), j \in 0..Len(label) :
        ToLower(SubSeq(label, i, j)) = ToLower(word)

\* every required label is contained in some label of the product
CarriesAll(x, requiredLabels) ==
    \A k \in 1..Len(requiredLabels) :
        \E n \in 1..Len(x.Labels) : ContainsFold(x.Labels[n], requiredLabels[k])

SearchWithOneLabel(p) ==
    /\ SearchReturnedList(p)
    /\ hist[p][1].args.prefs # Nil
    /\ Len(Deref(hist[p][1].args.prefs).RequiredLabels) = 1

RequiredLabel(p) == Deref(hist[p][1].args.prefs).RequiredLabels[1]

Occurrences(seq, x) == Cardinality({i \in 1..Len(seq) : seq[i] = x})

\* a and b hold the same products the same number of times
IsPermutation(a, b) ==
    /\ Len(a) = Len(b)
    /\ \A x \in Elements(a) \cup Elements(b) : Occurrences(a, x) = Occurrences(b, x)

\* the search of caller p was given preferences with this sort mode and
\* returned a list
SearchSortedBy(p, mode) ==
    /\ SearchReturnedList(p)
    /\ hist[p][1].args.prefs # Nil
    /\ Deref(hist[p][1].args.prefs).SortBy = mode

\* C23: with sort_by=cheapest the list returned by SearchProducts is a
\* permutation of the products that passed the filters, and the parsed unit
\* compare prices are non-decreasing along the list.
C23_CheapestFirst ==
    \A p \in Procs :
        SearchSortedBy(p, "cheapest") =>
            /\ IsPermutation(ret[p].val,
                   PassingProducts(ServerResults(p), Deref(hist[p][1].args.prefs)))
            /\ \A i \in 1..(Len(ret[p].val) - 1) :
                   Le(parseComparePriceToFloat(ret[p].val[i].ComparePrice),
                      parseComparePriceToFloat(ret[p].val[i + 1].ComparePrice))


\* ------------------------------------------------------------------ C24
\* how many labels of x contain a word of the recognized quality set
QualityLabelCount(x) ==
    Cardinality({n \in 1..Len(x.Labels) :
                     \E word \in qualityLabels : ContainsFold(x.Labels[n], word)})

\* 100/unit_price (0 when the price is not above 0) + bonus
\* + 0.5 x savings_amount when a positive savings amount is present
ScoreWithBonus(x, bonus) ==
    LET price == parseComparePriceToFloat(x.ComparePrice)
        pricePart == IF Gt(price, Zero) /\ price.kind = "num"
                     THEN DivNum(Num(100, 1), price) ELSE Zero
        savingsPart == IF x.SavingsAmount # Nil /\ Gt(Deref(x.SavingsAmount), Zero)
                       THEN MulNum(Deref(x.SavingsAmount), Num(1, 2)) ELSE Zero
    IN AddNum(AddNum(pricePart, Num(bonus, 1)), savingsPart)

\* the score with at most one 10-point bonus per product
ScoreOneBonus(x) == ScoreWithBonus(x, IF QualityLabelCount(x) > 0 THEN 10 ELSE 0)
\* the score with one 10-point bonus per label that contains a quality word
ScoreBonusPerLabel(x) == ScoreWithBonus(x, 10 * QualityLabelCount(x))

\* C24: with sort_by=best_value the returned products are in non-increasing
\* order of score = 100/unit_price (0 when the parsed price is <= 0) + a
\* quality bonus + 0.5 x savings_amount when positive, where the quality
\* bonus is at most one 10-point bonus per product however many of its
\* labels match the recognized quality set.
C24_BestValueOneBonus ==
    \A p \in Procs :
        SearchSortedBy(p, "best_value") =>
            \A i \in 1..(Len(ret[p].val) - 1) :
                ~Lt(ScoreOneBonus(ret[p].val[i]), ScoreOneBonus(ret[p].val[i + 1]))

\* C24 as the code has it: with sort_by=best_value the returned list is a
\* permutation of the filtered products in non-increasing order of the score
\* whose quality bonus is 10 points for every label of the product that
\* contains a recognized quality word.
C24_BestValuePerLabel ==
    \A p \in Procs :
        SearchSortedBy(p, "best_value") =>
            /\ IsPermutation(ret[p].val,
                   PassingProducts(ServerResults(p), Deref(hist[p][1].args.prefs)))
            /\ \A i \in 1..(Len(ret[p].val) - 1) :
                   ~Lt(ScoreBonusPerLabel(ret[p].val[i]),
                       ScoreBonusPerLabel(ret[p].val[i + 1]))

\* a best_value search moved a product with two quality labels in front of
\* one that a single bonus per product would rank higher
C24_Witness ==
    \E p \in Procs :
        /\ SearchSortedBy(p, "best_value")
        /\ Len(ret[p].val) >= 2
        /\ ret[p].val # ServerResults(p)
        /\ QualityLabelCount(ret[p].val[1]) = 2
        /\ Lt(ScoreOneBonus(ret[p].val[1]), ScoreOneBonus(ret[p].val[2]))


\* ------------------------------------------------------------------ C25
\* NNNNN, or NNN NN with one space
WellFormedPostalCode(s) ==
    \/ Len(s) = 5 /\ IsDigits(s)
    \/ Len(s) = 6 /\ IsDigits(SubSeq(s, 1, 3)) /\ SubSeq(s, 4, 4) = " "
                  /\ IsDigits(SubSeq(s, 5, 6))

\* C25: ValidatePostalCode succeeds exactly for five digits and for three
\* digits, one space, two digits; every other string, the empty one and those
\* with another whitespace character included, fails with a ValidationError.
\* Seen through CheckDeliverability, whose first step is that validation.
C25_PostalCodeFormat ==
    \A p \in Procs :
        OpDone(p, {"CheckDeliverability"}) =>
            (ret[p].err.type = "ValidationError"
                <=> ~WellFormedPostalCode(hist[p][1].args.postalCode))


\* ------------------------------------------------------------------ C26
\* AddToCart of caller p has returned and its product code was well formed
AddToCartDone(p) ==
    /\ OpDone(p, {"AddToCart"})
    /\ ValidateProductCode(hist[p][1].args.productCode) = NoErr

\* C26: ValidateQuantity succeeds iff 1 <= q <= 999: AddToCart with a well
\* formed product code returns a ValidationError exactly when the quantity is
\* outside [1, 999], and then no request was dispatched during the call.
C26_QuantityRange ==
    \A p \in Procs :
        AddToCartDone(p) =>
            LET q == hist[p][1].args.quantity IN
              /\ ret[p].err.type = "ValidationError" <=> (q < 1 \/ q > 999)
              /\ (q < 1 \/ q > 999) => NetworkEvents(p) = {}

\* AddToCart was called with quantity 1000 and returned a ValidationError
\* without any network event
C26_Witness ==
    \E p \in Procs :
        /\ AddToCartDone(p)
        /\ hist[p][1].args.quantity = 1000
        /\ ret[p].err.type = "ValidationError"
        /\ Len(hist[p]) = 1


\* ------------------------------------------------------------------ C27
\* the clock reading of the returned ValidateDeliveryDate call of caller p
ClockOf(p) == Ev(p, CHOOSE i \in Idx(p) : Is(Ev(p, i), "clock"))

\* the caller's current local calendar date and the date the string names,
\* as days since 1970-01-01
TodayOf(p) == LocalDay(ClockOf(p).now, ClockOf(p).offset)
DateOf(dateStr) == ParseDate(dateStr).val \div HoursPerDay

\* C27: ValidateDeliveryDate(d) succeeds iff d is a well-formed YYYY-MM-DD
\* calendar date with today <= d <= today + 14 days, today being the
\* caller's current local calendar date, at every local time of day and
\* every offset of the caller's zone.
C27_DateWindow ==
    \A p \in Procs :
        OpDone(p, {"ValidateDeliveryDate"}) =>
            LET d == hist[p][1].args.dateStr IN
              ret[p].err = NoErr <=>
                  /\ ParseDate(d).ok
                  /\ TodayOf(p) <= DateOf(d)
                  /\ DateOf(d) <= TodayOf(p) + maxDeliveryDaysAhead


\* ------------------------------------------------------------------ C28
\* what a path segment stands for at the server: %XX codes are decoded, every
\* other byte, + included, stands for itself
RECURSIVE PathUnescape(_)
PathUnescape(s) ==
    IF s = "" THEN ""
    ELSE IF Head(s) = "%" /\ Len(s) >= 3
    THEN (CASE SubSeq(s, 2, 3) = "2B" -> "+"
            [] SubSeq(s, 2, 3) = "2F" -> "/"
            [] SubSeq(s, 2, 3) = "3A" -> ":"
            [] SubSeq(s, 2, 3) = "25" -> "%"
            [] OTHER -> SubSeq(s, 1, 3))
         \o PathUnescape(SubSeq(s, 4, Len(s)))
    ELSE Head(s) \o PathUnescape(Tail(s))

\* caller p's call selected a slot: the selection request was dispatched
SlotSelected(p) ==
    /\ OpDone(p, {"SelectTimeSlot", "SetupDelivery"})
    /\ \E i \in Idx(p) : Is(Ev(p, i), "dispatch") /\ Ev(p, i).req = "slotInCart"

SelectionOf(p) == Ev(p, CHOOSE i \in Idx(p) : Is(Ev(p, i), "selection"))

\* C28: when a TimeSlot that GetAvailableTimeSlots produced from a slot of
\* the listing is passed to SelectTimeSlot, directly or through
\* SetupDelivery, the routing fields sent in the selection request and the
\* slot id in its path equal the values the listing carried for that slot.
C28_RoutingRoundTrip ==
    \A p \in Procs :
        SlotSelected(p) =>
            \A s \in ServerSlots :
                ToTimeSlot(s) = hist[p][1].args.slot =>
                    /\ SelectionOf(p).body = s.TmsDeliveryWindowReference
                    /\ PathUnescape(SelectionOf(p).path) = s.Code


\* ------------------------------------------------------------------ C29
\* a string that writes a number
IsNumericString(s) == ParseFloat(s).ok /\ ParseFloat(s).val.kind = "num"

\* the value a price field is described to be coerced to: a number itself,
\* the number a numeric string writes, the same for the "value" field of an
\* object, and 0 for anything else
CoercedDirect(v) ==
    IF v.t = "number" THEN v.num
    ELSE IF v.t = "string" /\ IsNumericString(v.str) THEN ParseFloat(v.str).val
    ELSE Zero
Coerced(v) ==
    IF v.t = "object"
    THEN IF v.value # Nil THEN CoercedDirect(Deref(v.value)) ELSE Zero
    ELSE CoercedDirect(v)

\* a and b are the same float64 value
SameFloat(a, b) ==
    /\ a.kind = b.kind
    /\ a.kind = "num" => ~Gt(a, b) /\ ~Lt(a, b)
    /\ a.kind = "inf" => a.num = b.num

\* GetCart of caller p has returned after reading a cart response that is JSON
CartRead(p) ==
    /\ OpDone(p, {"GetCart"})
    /\ \E i \in Idx(p) : Is(Ev(p, i), "body") /\ Ev(p, i).body.shape = "json"

CartBodyOf(p) == Ev(p, CHOOSE i \in Idx(p) : Is(Ev(p, i), "body")).body

\* C29: every price-bearing field of the cart response is coerced to its
\* numeric value when it is a number, a numeric string or an object whose
\* "value" is one of these, and to 0 when it is missing, null, an empty or
\* non-numeric string or an object without "value"; GetCart does not fail
\* on the shape of a price field, and FinalTotal = TotalPrice + DeliveryFee
\* + PickingFee of the coerced values.
C29_PriceCoercion ==
    \A p \in Procs :
        CartRead(p) =>
            /\ ret[p].err = NoErr
            /\ LET cart == Deref(ret[p].val)
                   prices == CartBodyOf(p).prices IN
                 /\ SameFloat(cart.TotalPrice, Coerced(prices.totalPrice))
                 /\ SameFloat(cart.DeliveryFee, Coerced(prices.deliveryFee))
                 /\ SameFloat(cart.PickingFee, Coerced(prices.pickingFee))
                 /\ \A i \in 1..Len(cart.Items) :
                        SameFloat(cart.Items[i].Price, Coerced(prices.price))
                 /\ SameFloat(cart.FinalTotal,
                        AddFloat(AddFloat(Coerced(prices.totalPrice),
                                          Coerced(prices.deliveryFee)),
                                 Coerced(prices.pickingFee)))

\* ------------------------------------------------------------------ C30
\* the shop has processed a POST of caller p's current call
Wrote(p) ==
    /\ \E k \in 2..Len(server.posts) : server.posts[k].by = p
    /\ \E i \in Idx(p) : /\ Is(Ev(p, i), "dispatch")
                         /\ Ev(p, i).req = "addProducts"
                         /\ Ev(p, i).status = StatusOK

\* the quantity of the product in the first cart caller p's call received
ReadQty(p) ==
    LET i == CHOOSE i \in Idx(p) :
                 /\ Is(Ev(p, i), "body")
                 /\ \A j \in 1..(i - 1) : ~Is(Ev(p, j), "body")
        products == Ev(p, i).body.products
    IN IF products = <<>> THEN 0 ELSE products[1].Quantity

\* the quantity caller p's call put into its POST
WrittenQty(p) == Ev(p, CHOOSE i \in Idx(p) : Is(Ev(p, i), "newQty")).qty

\* callers p and q each removed n > 0 from a line of at least 2n, and the
\* shop has processed exactly their two POSTs
TwoRemovals(p, q, n) ==
    /\ p # q
    /\ Len(server.posts) = 3
    /\ Wrote(p) /\ Wrote(q)
    /\ hist[p][1].fn = "RemoveFromCart" /\ hist[q][1].fn = "RemoveFromCart"
    /\ hist[p][1].args.quantity = n /\ hist[q][1].args.quantity = n
    /\ n > 0
    /\ server.posts[1].qty >= 2 * n

\* C30: when two RemoveFromCart(code, n) calls with n > 0 have both had
\* their POST processed on a line that held q >= 2n, the shop holds the
\* quantity written by the POST it processed last; that is q - n when both
\* calls read q (one decrement is lost) and q - 2n otherwise.
C30_LastWriteWins ==
    \A p, q \in Procs : \A n \in RemoveQuantities :
        TwoRemovals(p, q, n) =>
            LET first == server.posts[1].qty
                last == server.posts[3] IN
              /\ server.cart = WrittenQty(last.by)
              /\ IF ReadQty(p) = first /\ ReadQty(q) = first
                 THEN server.cart = first - n
                 ELSE server.cart = first - 2 * n

\* both calls have returned, both read q, and the shop holds q - n
C30_Witness ==
    \E p, q \in Procs : \E n \in RemoveQuantities :
        /\ TwoRemovals(p, q, n)
        /\ OpDone(p, {"RemoveFromCart"}) /\ OpDone(q, {"RemoveFromCart"})
        /\ ReadQty(p) = server.posts[1].qty
        /\ ReadQty(q) = server.posts[1].qty
        /\ server.cart = server.posts[1].qty - n
        /\ server.cart # server.posts[1].qty - 2 * n

\* ------------------------------------------------------------------ C31
\* no login has stored credentials in the client: it is still a guest
Guest == username = ""

\* C31: whenever IsAuthenticated has returned on a client on which no Login
\* or LoginWithBrowser has succeeded, it has returned false, whatever
\* unauthenticated requests and token fetches the client performed before.
C31_GuestNotAuthenticated ==
    \A p \in Procs :
        (OpDone(p, {"IsAuthenticated"}) /\ Guest) => ret[p].val = FALSE

\* ------------------------------------------------------------------ C32
\* the retry counter DoRequest loaded before its re-login decision; with one
\* caller this is the counter's value when the call began
AttemptsBefore(p) == Ev(p, CHOOSE j \in Idx(p) : Is(Ev(p, j), "creds")).attempts

\* the Login called by caller p's DoRequest returned an error
ReloginFailed(p, i) == /\ Done(p, "DoRequest")
                       /\ Is(Ev(p, i), "relogged")
                       /\ ~Ev(p, i).ok

\* C32: when the Login that DoRequest itself performs fails, DoRequest
\* returns an error right away, without dispatching the request again, and
\* the retry counter after the call equals its value before the call.
C32_FailedReloginNotCounted ==
    \A p \in Procs : \A i \in Idx(p) :
        ReloginFailed(p, i) =>
            /\ i = Len(hist[p])
            /\ ret[p].err # NoErr
            /\ authAttempts = AttemptsBefore(p)

\* the part of C32 that the code keeps: the error is returned right away and
\* the request is not dispatched again
C32_FailedReloginSurfaces ==
    \A p \in Procs : \A i \in Idx(p) :
        ReloginFailed(p, i) =>
            /\ i = Len(hist[p])
            /\ ret[p].err.type = "AuthenticationError"
            /\ Len(Dispatches(p)) = 2

\* ------------------------------------------------------------------ C33
\* the events of a RemoveFromCart call: the POSTs it built, the cart
\* responses it decoded, the requests that reached the network
BuiltPosts(p) == {i \in Idx(p) : Is(Ev(p, i), "newQty")}
CartsRead(p) ==
    {i \in Idx(p) : Is(Ev(p, i), "body") /\ Ev(p, i).body.shape = "json"}
Sent(p, req) ==
    {i \in Idx(p) : Is(Ev(p, i), "dispatch") /\ Ev(p, i).req = req}
Accepted(p) ==
    {i \in Sent(p, "addProducts") :
         Ev(p, i).status \in {StatusOK, StatusCreated}}

\* the quantity of the product in a decoded cart response, 0 when absent
QtyIn(body, code) ==
    LET found == FindItem(body.products, code) IN
      IF found = 0 THEN 0 ELSE body.products[found].Quantity
Present(body, code) == FindItem(body.products, code) # 0

\* C33: RemoveFromCart(code, n) with n <= 0 builds its POST with quantity 0
\* before any request is sent; with n > 0 it builds a POST only after it
\* read the cart in the same call and found the product, with quantity
\* max(q - n, 0), never negative; with n > 0 and the product absent from the
\* cart it read it sends no POST and returns that cart; and when the POST
\* was accepted and the call succeeds, the cart returned was fetched after
\* the POST.
C33_RemoveFromCart ==
    \A p \in Procs :
        OpDone(p, {"RemoveFromCart"}) =>
            LET a == hist[p][1].args
                first == CHOOSE i \in CartsRead(p) :
                             \A j \in CartsRead(p) : i <= j
                last == CHOOSE i \in CartsRead(p) :
                            \A j \in CartsRead(p) : j <= i
            IN
            /\ Cardinality(BuiltPosts(p)) <= 1
            /\ \A i \in Sent(p, "addProducts") : \E j \in BuiltPosts(p) : j < i
            /\ \A i \in BuiltPosts(p) :
                   /\ Ev(p, i).productCode = a.productCode
                   /\ Ev(p, i).qty >= 0
            /\ a.quantity <= 0 =>
                   /\ BuiltPosts(p) = {2}
                   /\ Ev(p, 2).qty = 0
            /\ a.quantity > 0 =>
                   /\ \A i \in BuiltPosts(p) :
                          /\ \E j \in CartsRead(p) : j < i
                          /\ first < i
                          /\ Present(Ev(p, first).body, a.productCode)
                          /\ Ev(p, i).qty =
                                 Max(QtyIn(Ev(p, first).body, a.productCode)
                                     - a.quantity, 0)
                   /\ (CartsRead(p) # {}
                       /\ ~Present(Ev(p, first).body, a.productCode)) =>
                          /\ Sent(p, "addProducts") = {}
                          /\ BuiltPosts(p) = {}
                          /\ ret[p].err = NoErr
                          /\ Deref(ret[p].val) = CartSummary(Ev(p, first).body)
            /\ (Accepted(p) # {} /\ ret[p].err = NoErr) =>
                   /\ \A i \in Accepted(p) : i < last
                   /\ Deref(ret[p].val) = CartSummary(Ev(p, last).body)

\* a removal of part of a line: the cart was read, a positive quantity was
\* posted and accepted, and the cart fetched afterwards was returned
C33_Witness ==
    \E p \in Procs :
        /\ OpDone(p, {"RemoveFromCart"})
        /\ hist[p][1].args.quantity > 0
        /\ \E i \in BuiltPosts(p) : Ev(p, i).qty > 0
        /\ Accepted(p) # {}
        /\ ret[p].err = NoErr
        /\ Cardinality(CartsRead(p)) = 2

\* a removal of more than the line holds posts 0, and a removal from a cart
\* without the product posts nothing
C33_WitnessClamped ==
    \E p \in Procs :
        /\ OpDone(p, {"RemoveFromCart"})
        /\ hist[p][1].args.quantity > 2
        /\ \E i \in BuiltPosts(p) : Ev(p, i).qty = 0

\* ------------------------------------------------------------------ C34
\* the steps of SetupDelivery by the request each one sends, in the order
\* of the claim
StepOf(req) ==
    CASE req = "deliverability" -> 1
      [] req = "deliveryMode" -> 2
      [] req = "deliveryAddress" -> 3
      [] req = "postalCode" -> 4
      [] req = "slotInCart" -> 5
      [] OTHER -> 0

\* the requests of step k that reached the network in caller p's call
StepSent(p, k) ==
    {i \in Idx(p) : Is(Ev(p, i), "dispatch") /\ StepOf(Ev(p, i).req) = k}

\* step k succeeded: the deliverability check was answered "deliverable", a
\* later step had its last request answered 200 or 204
StepSucceeded(p, k) ==
    IF k = 1
    THEN \E i \in Idx(p) : /\ Is(Ev(p, i), "body")
                           /\ Ev(p, i).body.shape = "json"
                           /\ Ev(p, i).body.deliverable
    ELSE /\ StepSent(p, k) # {}
         /\ LET last == CHOOSE i \in StepSent(p, k) :
                            \A j \in StepSent(p, k) : j <= i
            IN Ev(p, last).status \in {StatusOK, StatusNoContent}

\* C34: in a SetupDelivery call the requests go out in the order
\* deliverability check, delivery mode, address, postal code, slot; a
\* request of a step goes out only after every earlier step succeeded, so
\* after a failure, and after the answer "not deliverable", nothing more is
\* sent; the call returns a DeliveryInfo only if all five steps succeeded
\* and an error otherwise.
C34_SetupDeliveryOrder ==
    \A p \in Procs :
        Called(p, "SetupDelivery") =>
            /\ \A i, j \in Idx(p) :
                   (/\ i < j
                    /\ Is(Ev(p, i), "dispatch")
                    /\ Is(Ev(p, j), "dispatch")) =>
                       /\ StepOf(Ev(p, i).req) >= 1
                       /\ StepOf(Ev(p, i).req) <= StepOf(Ev(p, j).req)
            /\ \A k \in 2..5 :
                   StepSent(p, k) # {} =>
                       \A earlier \in 1..(k - 1) : StepSucceeded(p, earlier)
            /\ Idle(p) =>
                   IF \A k \in 1..5 : StepSucceeded(p, k)
                   THEN /\ ret[p].err = NoErr
                        /\ Deref(ret[p].val).Address = hist[p][1].args.address
                        /\ Deref(ret[p].val).TimeSlot = hist[p][1].args.slot
                   ELSE /\ ret[p].err # NoErr
                        /\ ret[p].val = Nil

\* a call that went through all five steps and returned the DeliveryInfo
C34_Witness ==
    \E p \in Procs :
        /\ Done(p, "SetupDelivery")
        /\ \A k \in 1..5 : StepSucceeded(p, k)
        /\ ret[p].err = NoErr

\* a call whose address step failed after the mode was set: nothing later
\* was sent
C34_WitnessFailure ==
    \E p \in Procs :
        /\ Done(p, "SetupDelivery")
        /\ StepSucceeded(p, 2)
        /\ StepSent(p, 3) # {}
        /\ ~StepSucceeded(p, 3)
        /\ StepSent(p, 4) = {}

\* ------------------------------------------------------------------ C35
\* every step of the one caller is eventually taken: each network call
\* returns and the caller's goroutine keeps running
SpecLive == Init /\ [][Next]_vars /\ WF_vars(Next)

\* the frames of function f on caller p's stack
FramesOf(p, f) == {k \in 1..Len(stack[p]) : stack[p][k].fn = f}

\* a DoRequest call dispatches its request at most 3 times, performs at most
\* one Login and at most 3 token fetches; the DoRequest that Login calls is
\* unprotected and never enters the refresh or re-login sequence, and Login
\* is called from DoRequest only when that DoRequest is the call itself
C35_Inv ==
    \A p \in Procs :
        Called(p, "DoRequest") =>
            /\ Len(Dispatches(p)) <= 3
            /\ Count(p, "login") <= 1
            /\ Count(p, "tokenfetch") <= 3
            /\ Cardinality(FramesOf(p, "DoRequest")) <= 2
            /\ Cardinality(FramesOf(p, "Login")) <= 1
            /\ \A k \in FramesOf(p, "DoRequest") :
                   k < Len(stack[p]) =>
                       /\ stack[p][k + 1].fn = "Login"
                       /\ stack[p][k].req = LoginRequest
                       /\ ~stack[p][k].needsCSRF
                       /\ stack[p][k].pc \in {"begin", "do"}

\* C35: every DoRequest call returns, after dispatching the caller's request
\* at most 3 times, with at most one Login and at most 3 token fetches; the
\* request Login issues is unprotected, so a re-login never enters the
\* refresh or re-login sequence and DoRequest is nested at most one level.
C35_BoundedDoRequest ==
    /\ []C35_Inv
    /\ \A p \in Procs : (Called(p, "DoRequest") /\ ~Idle(p)) ~> Idle(p)

\* a call that used everything: 3 dispatches, a Login, 3 token fetches
C35_Witness ==
    \E p \in Procs :
        /\ Done(p, "DoRequest")
        /\ Len(Dispatches(p)) = 3
        /\ Count(p, "login") = 1
        /\ Count(p, "tokenfetch") = 3

\* ------------------------------------------------------------------ C36
\* a protected request with a live context and a body that can be read
StartProtected(p) ==
    /\ Idle(p)
    /\ \E req \in Requests : Start(p, DoRequestFrame(req, TRUE, "ok"), "live")

\* a Login with the credentials the client was built with
StartStoredLogin(p) ==
    /\ Idle(p)
    /\ \E c \in {"live"} : Start(p, LoginFrame(username, password), c)

\* one step of caller p: the first caller issues a protected request, the
\* others a token call or a login; and what these call
LockStep(p) ==
    \/ (p # 1 /\ StartGetCSRFToken(p))
    \/ GetCSRFTokenRead(p)
    \/ GetCSRFTokenLock(p)
    \/ GetCSRFTokenLocked(p)
    \/ (p # 1 /\ StartFetchCSRFToken(p))
    \/ FetchCSRFTokenLock(p)
    \/ FetchCSRFTokenLocked(p)
    \/ (p = 1 /\ StartProtected(p))
    \/ DoRequestBegin(p)
    \/ DoRequestToken(p)
    \/ DoRequestDo(p)
    \/ DoRequestRefreshed(p)
    \/ DoRequestToken2(p)
    \/ DoRequestRetry(p)
    \/ DoRequestLoad(p)
    \/ DoRequestCreds(p)
    \/ DoRequestAdd(p)
    \/ DoRequestRelogged(p)
    \/ DoRequestToken3(p)
    \/ DoRequestFinal(p)
    \/ (p # 1 /\ StartStoredLogin(p))
    \/ LoginBegin(p)
    \/ InitializeSession(p)
    \/ LoginPosted(p)
    \/ LoginStore(p)
    \/ LoginReset(p)
    \/ LoginDone(p)

NextLock == \E p \in Procs : LockStep(p)

\* concurrent callers, each of which keeps running: a step that stays
\* possible is eventually taken (every network call returns, and a goroutine
\* waiting for a free lock gets it)
SpecLock == InitConc /\ [][NextLock]_vars /\ \A p \in Procs : WF_vars(LockStep(p))

\* caller p is about to acquire the client lock, shared or exclusive
Acquiring(p) ==
    /\ ~Idle(p)
    /\ \/ Top(p).fn = "GetCSRFToken" /\ Top(p).pc \in {"read", "lock"}
       \/ Top(p).fn = "FetchCSRFToken" /\ Top(p).pc = "lock"
       \/ Top(p).fn = "DoRequest" /\ Top(p).pc = "creds"
       \/ Top(p).fn = "Login" /\ Top(p).pc = "store"

\* caller p waits for the lock, which another caller holds
Blocked(p) == Acquiring(p) /\ mu # 0

\* the lock is free or held by a caller that is inside the locked stretch of
\* GetCSRFToken or FetchCSRFToken and not acquiring; and when any call is
\* running, some caller can take a step
C36_Inv ==
    /\ mu \in Procs \cup {0}
    /\ \A p \in Procs :
           mu = p => /\ ~Idle(p)
                     /\ Top(p).fn \in {"GetCSRFToken", "FetchCSRFToken"}
                     /\ Top(p).pc = "locked"
                     /\ ~Acquiring(p)
    /\ (\E p \in Procs : ~Idle(p)) => \E p \in Procs : ~Idle(p) /\ ~Blocked(p)

\* C36: no caller acquires the client lock while it holds it, no state is
\* reachable in which calls are running and no caller can take a step, and
\* every call eventually returns.
C36_DeadlockFree ==
    /\ []C36_Inv
    /\ \A p \in Procs : (~Idle(p)) ~> Idle(p)

\* one caller waits for the lock that another caller holds
C36_Witness ==
    \E p, q \in Procs :
        /\ p # q
        /\ mu = q
        /\ Acquiring(p)


\* ------------------------------------------------------------------ C37
\* a client whose retry counter is anywhere in its range: no re-login failed
\* yet, one did, or the budget is spent
InitRetry ==
    /\ csrfToken = NoToken
    /\ username = "user"
    /\ password = "secret"
    /\ authAttempts \in 0..MaxAuthRetryAttempts
    /\ mu = 0
    /\ stack = [p \in Procs |-> <<>>]
    /\ ret = [p \in Procs |-> NoRet]
    /\ ctx = [p \in Procs |-> "nil"]
    /\ hist = [p \in Procs |-> <<>>]
    /\ lastFetched = NoToken
    /\ budget = [p \in Procs |-> MaxConcCalls]
    /\ server = Shop(0)
    /\ jar = {}

\* one step of caller p, who issues protected requests only
RetryStep(p) ==
    \/ StartProtected(p)
    \/ GetCSRFTokenRead(p)
    \/ GetCSRFTokenLock(p)
    \/ GetCSRFTokenLocked(p)
    \/ FetchCSRFTokenLock(p)
    \/ FetchCSRFTokenLocked(p)
    \/ DoRequestBegin(p)
    \/ DoRequestToken(p)
    \/ DoRequestDo(p)
    \/ DoRequestRefreshed(p)
    \/ DoRequestToken2(p)
    \/ DoRequestRetry(p)
    \/ DoRequestLoad(p)
    \/ DoRequestCreds(p)
    \/ DoRequestAdd(p)
    \/ DoRequestRelogged(p)
    \/ DoRequestToken3(p)
    \/ DoRequestFinal(p)
    \/ LoginBegin(p)
    \/ InitializeSession(p)
    \/ LoginPosted(p)
    \/ LoginStore(p)
    \/ LoginReset(p)
    \/ LoginDone(p)

NextRetry == \E p \in Procs : RetryStep(p)

SpecRetry == InitRetry /\ [][NextRetry]_vars

FetchFailedStep(p) ==
    /\ Len(hist'[p]) = Len(hist[p]) + 1
    /\ IsFetch(hist'[p][Len(hist'[p])])
    /\ ~hist'[p][Len(hist'[p])].ok

\* the frames of caller p that are about to dispatch a protected request
DispatchFrames(p) ==
    {k \in FramesOf(p, "DoRequest") :
        /\ stack[p][k].needsCSRF
        /\ stack[p][k].pc \in {"do", "retry", "final"}}

C38_Inv ==
    /\ csrfToken = lastFetched
    /\ \A p \in Procs :
        /\ \A k \in DispatchFrames(p) : stack[p][k].header # NoToken
        /\ Protected(p) =>
              \A i \in Idx(p) : IsDispatch(Ev(p, i)) => Ev(p, i).csrf
        /\ (Protected(p) /\ Idle(p) /\ IsFetch(Last(p)) /\ ~Last(p).ok) =>
              ret[p].err # NoErr

\* C38: the cached token is the token of the most recent successful token
\* fetch (empty before the first); a failed token fetch leaves the cached
\* token as it was; every dispatch of a protected request carries a non-empty
\* X-CSRF-TOKEN header, and a protected call whose token could not be obtained
\* returns an error instead of dispatching.
C38_TokenCache ==
    /\ []C38_Inv
    /\ [][\A p \in Procs : FetchFailedStep(p) => csrfToken' = csrfToken]_vars

\* a token fetch failed while a token was cached, the token is still cached,
\* and the call had dispatched its protected request with it
C38_Witness ==
    \E p \in Procs :
        /\ Protected(p)
        /\ Idle(p)
        /\ IsFetch(Last(p))
        /\ ~Last(p).ok
        /\ Last(p).cached
        /\ csrfToken # NoToken
        /\ Len(Dispatches(p)) = 1


\* ------------------------------------------------------------------ C39
\* the session state of the client: cached token, stored credentials and
\* retry counter
Session ==
    [csrfToken |-> csrfToken, username |-> username, password |-> password,
     authAttempts |-> authAttempts]

\* a caller starts a top-level login; the call event keeps the session state
\* the call found
StartRecorded(p, f) ==
    /\ budget[p] > 0
    /\ budget' = [budget EXCEPT ![p] = @ - 1]
    /\ stack' = [stack EXCEPT ![p] = <<f>>]
    /\ ret' = [ret EXCEPT ![p] = NoRet]
    /\ ctx' = [ctx EXCEPT ![p] = "live"]
    /\ hist' = [hist EXCEPT ![p] =
                   <<[fn |-> f.fn, e |-> "call", needsCSRF |-> FALSE,
                      before |-> Session]>>]
    /\ UNCHANGED <<csrfToken, username, password, authAttempts, mu,
                   lastFetched, server, jar>>

StartRecordedLogin(p) ==
    /\ Idle(p)
    /\ \E u \in Usernames, pw \in Passwords :
           StartRecorded(p, LoginFrame(u, pw))

StartRecordedBrowser(p) ==
    /\ Idle(p)
    /\ \E u \in Usernames, pw \in Passwords :
           StartRecorded(p, BrowserFrame(u, pw))

\* protected requests (whose re-logins move the retry counter) and logins
NextSession ==
    \E p \in Procs :
        \/ StartProtected(p)
        \/ GetCSRFTokenRead(p)
        \/ GetCSRFTokenLock(p)
        \/ GetCSRFTokenLocked(p)
        \/ FetchCSRFTokenLock(p)
        \/ FetchCSRFTokenLocked(p)
        \/ DoRequestBegin(p)
        \/ DoRequestToken(p)
        \/ DoRequestDo(p)
        \/ DoRequestRefreshed(p)
        \/ DoRequestToken2(p)
        \/ DoRequestRetry(p)
        \/ DoRequestLoad(p)
        \/ DoRequestCreds(p)
        \/ DoRequestAdd(p)
        \/ DoRequestRelogged(p)
        \/ DoRequestToken3(p)
        \/ DoRequestFinal(p)
        \/ StartRecordedLogin(p)
        \/ LoginBegin(p)
        \/ InitializeSession(p)
        \/ LoginPosted(p)
        \/ LoginStore(p)
        \/ LoginReset(p)
        \/ LoginDone(p)
        \/ StartRecordedBrowser(p)
        \/ LoginWithBrowserBegin(p)
        \/ LoginWithBrowserLaunch(p)
        \/ LoginWithBrowserConnect(p)
        \/ LoginWithBrowserPage(p)
        \/ LoginWithBrowserAutomate(p)
        \/ LoginWithBrowserStore(p)
        \/ LoginWithBrowserReset(p)
        \/ LoginWithBrowserDone(p)

SpecSession == Init /\ [][NextSession]_vars

\* a top-level Login or LoginWithBrowser of caller p returned an error
LoginFailed(p) ==
    /\ Done(p, "Login") \/ Done(p, "LoginWithBrowser")
    /\ ret[p].err # NoErr

\* C39: when Login or LoginWithBrowser returns an error, the stored username
\* and password, the cached token and the retry counter are what they were
\* when the call began.
C39_FailedLoginKeepsSession ==
    \A p \in Procs : LoginFailed(p) => Session = hist[p][1].before

\* a login that fails before it stores anything leaves the session as it was
C39_EarlyFailureKeepsSession ==
    \A p \in Procs :
        (LoginFailed(p) /\ Count(p, "reset") = 0) =>
            Session = hist[p][1].before

\* a failed login never changes the cached token
C39_FailedLoginKeepsToken ==
    \A p \in Procs : LoginFailed(p) => csrfToken = hist[p][1].before.csrfToken


\* ------------------------------------------------------------------ C40
\* the DoRequest call of caller p found the retry counter at its maximum
\* when it loaded it
FoundLocked(p, i) ==
    /\ Called(p, "DoRequest")
    /\ Is(Ev(p, i), "creds")
    /\ Ev(p, i).attempts >= MaxAuthRetryAttempts

\* such a call performs no Login and, when its retry was answered 401 too,
\* fails with the budget error
LockedOut(p, i) ==
    /\ Count(p, "add") = 0
    /\ Count(p, "login") = 0
    /\ authAttempts >= MaxAuthRetryAttempts
    /\ Ev(p, i).status = StatusUnauthorized =>
          /\ Idle(p)
          /\ ret[p] = DoRet(0, NewAuthenticationError(
                          "maximum authentication retry attempts exceeded"))

\* a login called from outside DoRequest took the counter down from its
\* maximum
Unlocked(p, i) ==
    /\ Called(p, "Login") \/ Called(p, "LoginWithBrowser")
    /\ Is(Ev(p, i), "reset")
    /\ Ev(p, i).from >= MaxAuthRetryAttempts

\* C40: once the retry counter has reached MaxAuthRetryAttempts, no later
\* DoRequest call performs a Login, a later protected request answered 401
\* before and after the token refresh fails with the 'maximum authentication
\* retry attempts exceeded' AuthenticationError, and the counter leaves the
\* maximum only through a Login or LoginWithBrowser, called from outside
\* DoRequest, that succeeds.
C40_ReloginLockout ==
    \A p \in Procs : \A i \in Idx(p) :
        /\ FoundLocked(p, i) => LockedOut(p, i)
        /\ (Unlocked(p, i) /\ Idle(p)) => ret[p].err = NoErr

\* the part that holds: what a DoRequest call does once the counter is at
\* its maximum
C40_LockedOutRequests ==
    \A p \in Procs : \A i \in Idx(p) : FoundLocked(p, i) => LockedOut(p, i)

\* and the counter goes below the maximum only in the reset step of a login:
\* one called from outside DoRequest, or the re-login whose increment took
\* the counter to the maximum
C40_OnlyLoginUnlocks ==
    [][(authAttempts >= MaxAuthRetryAttempts
          /\ authAttempts' < MaxAuthRetryAttempts) =>
       \E p \in Procs :
           /\ ~Idle(p)
           /\ Top(p).pc = "reset"
           /\ stack'[p] # stack[p]
           /\ Called(p, "DoRequest") =>
                  /\ Count(p, "add") = 1
                  /\ AttemptsBefore(p) = MaxAuthRetryAttempts - 1]_vars
====
